---- MODULE Spec2Model ----
(***************************************************************************)
(* Model of the resumable batch-migration engine of migrate.py             *)
(* (PostgreSQL -> MongoDB): keyset-paginated fetch, idempotent upsert,     *)
(* checkpoint file, window engine with its circuit breaker, and the        *)
(* full-sync / incremental / resume orchestrators, with process crashes.   *)
(*                                                                         *)
(* Conventions.  Timestamps are integers; an ISO-8601 string of migrate.py *)
(* is modelled by the integer of its instant (isoformat and PostgreSQL's   *)
(* timestamp parsing are mutually inverse and order preserving).           *)
(* event_no strings are modelled by integers ("HCC%" ones are IsHCC).      *)
(* A primary-key value is a record [k, v]: k is the Python type it has     *)
(* ("int", "str", or "none" for None), v the value.                        *)
(***************************************************************************)
EXTENDS Integers, Sequences, FiniteSets, TLC

\* ---------------------------------------------------------------- bounds
MaxId == 2
MaxBatch == 2
MaxRuns == 2
MaxErrors == 5

\* ------------------------------------------------------ program constants
NULL == -1
Epoch == 0
MaxEnd == 9999
BreakerLimit == 5
StartClock == 2

Entities == {"events", "hcc_events", "attendees", "coupon_burui", "member_types"}

\* mutant: a merged table is processed before its parent
execution_order_ChildFirst == <<"hcc_events", "events", "attendees", "coupon_burui", "member_types">>

execution_order == <<"events", "hcc_events", "attendees", "coupon_burui", "member_types">>

\* TABLES_CONFIG[e]["id_field"]
id_field(e) == IF e \in {"events", "hcc_events"} THEN "event_no" ELSE "id"

\* "embed_array_field" in TABLES_CONFIG[e]
HasEmbed(e) == e \in {"coupon_burui", "member_types"}

embed_array_field(e) == IF e = "coupon_burui" THEN "usingBranchIds" ELSE "memberTypes"

\* the camelCase document key of the business column a row carries
PayloadKey(e) ==
  CASE e = "attendees" -> "appId"
    [] e = "coupon_burui" -> "branch"
    [] e = "member_types" -> "memberType"
    [] e = "hcc_events" -> "hccType"
    [] OTHER -> "eventName"

\* event_no LIKE 'HCC%'
IsHCC(n) == n % 3 # 0

\* ------------------------------------------------------------ source rows
\* A result row of fetch_batch's SELECT: t.* (id, add_date, mod_date, one
\* business column) plus event_no (t.event_no, or s.event_no of the join).
Row(i, ev, a, m, p) == [id |-> i, event_no |-> ev, add_date |-> a, mod_date |-> m, payload |-> p]

\* the candidate rows of primary key i of a table: the link key of a row of
\* events and hcc_events is its primary key; elsewhere it is event 1 (so two
\* rows can add different values to one parent's array), or event 3, which
\* is not on the whitelist
RowVariants(e, i) ==
  LET own == id_field(e) = "event_no"
      ev == IF own THEN i ELSE 1
      off == IF own THEN i ELSE 3
  IN CASE i % 3 = 1 -> {Row(i, ev, 1, NULL, "A"), Row(i, ev, NULL, NULL, "A")}
       [] i % 3 = 2 -> {Row(i, ev, 1, NULL, "N"), Row(i, off, 1, 2, "B"), Row(i, ev, 1, 2, "B")}
       [] OTHER     -> {Row(i, ev, 1, 2, "A"), Row(i, ev, 2, NULL, "B")}

RowPool(e) == UNION {RowVariants(e, i) : i \in 1..MaxId}

\* the tables a run can meet: at most one row per primary key
Tables(e) == {T \in SUBSET RowPool(e) : \A r, q \in T : r.id = q.id => r = q}

\* the table of an entity that is not the one under test
FixedTable(e) == {Row(1, 1, 1, NULL, "A")}

\* COALESCE(t.mod_date, t.add_date, '1970-01-01')
Eff(r) == IF r.mod_date # NULL THEN r.mod_date
          ELSE IF r.add_date # NULL THEN r.add_date ELSE Epoch

\* a primary-key value as Python holds it
IntId(n) == [k |-> "int", v |-> n]
StrId(n) == [k |-> "str", v |-> n]
NoneId == [k |-> "none", v |-> 0]

\* row.get(conf["id_field"]): event_no is a string column, id an integer one
IdOf(e, r) == IF id_field(e) = "event_no" THEN StrId(r.event_no) ELSE IntId(r.id)

\* str(new_checkpoint_id) if new_checkpoint_id is not None else None
Str(id) == IF id.k = "none" THEN NoneId ELSE StrId(id.v)

\* mutant: ORDER BY effective_timestamp, id DESC
RowLE_IdDescending(e, r, q) ==
  \/ Eff(r) < Eff(q)
  \/ Eff(r) = Eff(q) /\ IdOf(e, r).v > IdOf(e, q).v
  \/ Eff(r) = Eff(q) /\ IdOf(e, r).v = IdOf(e, q).v /\ r.event_no <= q.event_no

\* ORDER BY effective_timestamp, id (event_no breaks the ties of a join)
RowLE(e, r, q) ==
  \/ Eff(r) < Eff(q)
  \/ Eff(r) = Eff(q) /\ IdOf(e, r).v < IdOf(e, q).v
  \/ Eff(r) = Eff(q) /\ IdOf(e, r).v = IdOf(e, q).v /\ r.event_no <= q.event_no

RECURSIVE SortRows(_, _)
SortRows(e, S) ==
  IF S = {} THEN <<>>
  ELSE LET m == CHOOSE r \in S : \A q \in S : RowLE(e, r, q)
       IN <<m>> \o SortRows(e, S \ {m})

\* mutant: LIMIT batch_size + 1
Take_OffByOne(s, n) == IF Len(s) <= n + 1 THEN s ELSE SubSeq(s, 1, n + 1)

\* LIMIT n
Take(s, n) == IF Len(s) <= n THEN s ELSE SubSeq(s, 1, n)

\* if last_checkpoint_time and last_checkpoint_id is not None
HasCursor(t, id) == t # NULL /\ id.k # "none"

\* mutant: the continuation keeps the cursor's own row (id >= instead of id >)
AfterCursor_Inclusive(e, r, t, id) ==
  Eff(r) > t \/ (Eff(r) = t /\ IdOf(e, r).v >= id.v)

\* mutant: the continuation without the tie-break on the primary key
AfterCursor_NoTieBreak(e, r, t, id) ==
  Eff(r) > t

\* the keyset continuation predicate of fetch_batch; PostgreSQL coerces the
\* id parameter (an int, or the str() of one) to the column's type
AfterCursor(e, r, t, id) ==
  Eff(r) > t \/ (Eff(r) = t /\ IdOf(e, r).v > id.v)

\* mutant: effective_timestamp <= end_time
Qualifying_EndInclusive(e, T, valid, end_time, t, id) ==
  {r \in T : /\ valid # {}
             /\ r.event_no \in valid
             /\ Eff(r) <= end_time
             /\ (HasCursor(t, id) => AfterCursor(e, r, t, id))}

\* mutant: the WHERE clause without the whitelist condition
Qualifying_NoWhitelist(e, T, valid, end_time, t, id) ==
  {r \in T : /\ Eff(r) < end_time
             /\ (HasCursor(t, id) => AfterCursor(e, r, t, id))}

\* mutant: an empty whitelist adds no condition instead of "1=0"
Qualifying_NoFilterWhenEmpty(e, T, valid, end_time, t, id) ==
  {r \in T : /\ valid # {} => r.event_no \in valid
             /\ Eff(r) < end_time
             /\ (HasCursor(t, id) => AfterCursor(e, r, t, id))}

\* the rows of table T that satisfy fetch_batch's WHERE clause
Qualifying(e, T, valid, end_time, t, id) ==
  {r \in T : /\ valid # {}
             /\ r.event_no \in valid
             /\ Eff(r) < end_time
             /\ (HasCursor(t, id) => AfterCursor(e, r, t, id))}

fetch_batch(e, T, valid, end_time, t, id, batch_size) ==
  Take(SortRows(e, Qualifying(e, T, valid, end_time, t, id)), batch_size)

\* ------------------------------------------------------------------ sink
PyTrue == "True"
PyFalse == "False"

\* transform_row_to_doc's value rule: 'Y'/'N' strings become booleans
\* (normalize_value keeps the instant of a timestamp)
TransformValue(p) ==
  IF p \in {"Y", "y"} THEN PyTrue ELSE IF p \in {"N", "n"} THEN PyFalse ELSE p

\* a document is a function from camelCase keys to values
transform_row_to_doc(e, r) ==
  LET base == [eventNo |-> r.event_no, addDate |-> r.add_date, modDate |-> r.mod_date]
      keyed == IF id_field(e) = "id" THEN ("id" :> r.id) @@ base ELSE base
  IN (PayloadKey(e) :> TransformValue(r.payload)) @@ keyed

\* Python truthiness of the value handed to $addToSet
Falsy(v) == v \in {"", PyFalse, "None"}

\* mutant: $push instead of $addToSet
AddToSet_Push(doc, field, v) ==
  IF field \notin DOMAIN doc THEN (field :> <<v>>) @@ doc
  ELSE [doc EXCEPT ![field] = Append(@, v)]

\* {"$addToSet": {field: v}}
AddToSet(doc, field, v) ==
  IF field \notin DOMAIN doc THEN (field :> <<v>>) @@ doc
  ELSE IF \E i \in 1..Len(doc[field]) : doc[field][i] = v THEN doc
  ELSE [doc EXCEPT ![field] = Append(@, v)]

\* {"$set": upd}
SetFields(doc, upd) == upd @@ doc

\* UpdateOne(filter, {"$set": doc}, upsert=True) on a collection keyed by its filter
UpsertDoc(coll, key, doc) ==
  IF key \in DOMAIN coll THEN [coll EXCEPT ![key] = SetFields(@, doc)]
  ELSE (key :> doc) @@ coll

\* the request upsert_batch builds for one row, applied to the sink
ApplyRow(m, e, r) ==
  LET doc == transform_row_to_doc(e, r)
      event_no == doc["eventNo"]
  IN IF HasEmbed(e)
     THEN IF event_no = NULL \/ Falsy(doc[PayloadKey(e)]) \/ event_no \notin DOMAIN m.events
          THEN m
          ELSE [m EXCEPT !.events[event_no] = AddToSet(@, embed_array_field(e), doc[PayloadKey(e)])]
     ELSE IF e = "hcc_events"
     THEN IF event_no = NULL \/ event_no \notin DOMAIN m.events
          THEN m
          ELSE [m EXCEPT !.events[event_no] =
                  SetFields(@, [k \in DOMAIN doc \ {"eventNo", "addDate"} |-> doc[k]])]
     ELSE IF e = "attendees"
     THEN [m EXCEPT !.event_attendees = UpsertDoc(@, <<doc["eventNo"], doc["appId"]>>, doc)]
     ELSE [m EXCEPT !.events = UpsertDoc(@, event_no, doc)]

\* bulk_write of the requests of the rows whose position is in S (all of them
\* when the call succeeds, any part of them when it raises)
RECURSIVE ApplyRows(_, _, _, _, _)
ApplyRows(m, e, rows, S, i) ==
  IF i > Len(rows) THEN m
  ELSE ApplyRows(IF i \in S THEN ApplyRow(m, e, rows[i]) ELSE m, e, rows, S, i + 1)

upsert_batch(m, e, rows) == ApplyRows(m, e, rows, 1..Len(rows), 1)

EmptySink == [events |-> <<>>, event_attendees |-> <<>>]

\* ----------------------------------------------------------- verification
\* TABLES_CONFIG[e]["verification_mode"]
verification_mode(e) ==
  CASE e = "hcc_events" -> "merge_source"
    [] HasEmbed(e) -> "embed_array"
    [] OTHER -> "primary_count"

\* SELECT COUNT(*) of the whitelisted rows of the table (for coupon_burui, of
\* their distinct (event_no, branch) with a branch that is not null or empty)
pg_count(e, S, valid) ==
  IF e = "coupon_burui"
  THEN Cardinality({<<r.event_no, r.payload>> :
                      r \in {q \in S[e] : q.event_no \in valid /\ q.payload \notin {"None", ""}}})
  ELSE Cardinality({r \in S[e] : r.event_no \in valid})

\* the count verify_consistency takes from MongoDB: the whitelisted documents,
\* or the total size of their embedded arrays
mongo_count(e, m, valid) ==
  IF verification_mode(e) = "embed_array"
  THEN Cardinality(UNION {
         {<<ev, i>> : i \in 1..(IF embed_array_field(e) \in DOMAIN m.events[ev]
                                THEN Len(m.events[ev][embed_array_field(e)]) ELSE 0)} :
         ev \in {k \in DOMAIN m.events : m.events[k]["eventNo"] \in valid}})
  ELSE IF e = "attendees"
  THEN Cardinality({k \in DOMAIN m.event_attendees : m.event_attendees[k]["eventNo"] \in valid})
  ELSE Cardinality({k \in DOMAIN m.events : m.events[k]["eventNo"] \in valid})

\* the value verify_consistency returns when no query raises (one that
\* raises is logged and makes the result False)
verify_consistency(valid, S, m) ==
  IF valid = {} THEN TRUE
  ELSE \A e \in Entities :
          verification_mode(e) = "merge_source" \/ pg_count(e, S, valid) = mongo_count(e, m, valid)

\* the position of a table in TABLES_CONFIG (the order of execution_order)
Position(e) == CHOOSE i \in 1..Len(execution_order) : execution_order[i] = e

\* the sets of tables whose check can raise when the faults hit table f: none;
\* f and every table after it (no handler rolls back, so a query that fails
\* leaves the transaction aborted and every later query fails too); or f
\* alone, when its MongoDB query is the one that fails
VerifyFaults(f) ==
  {{}, {e \in Entities : Position(e) >= Position(f)}} \cup
  (IF verification_mode(f) = "merge_source" THEN {} ELSE {{f}})

\* mutant: a merge-only table is compared like a primary one
verification_result_ComparesMerge(e, valid, S, m, E) ==
  IF e \in E THEN "ERROR"
  ELSE IF pg_count(e, S, valid) = mongo_count(e, m, valid) THEN "PASS" ELSE "FAIL"

\* the entry verify_consistency makes for one table
verification_result(e, valid, S, m, E) ==
  IF e \in E THEN "ERROR"
  ELSE IF verification_mode(e) = "merge_source" \/ pg_count(e, S, valid) = mongo_count(e, m, valid)
       THEN "PASS"
       ELSE "FAIL"

NoVerification == [called |-> FALSE, all_ok |-> TRUE, results |-> [e \in Entities |-> "none"]]

\* verify_consistency when the checks of the tables of E raise: the entries
\* it makes and the value it returns (all_ok)
run_verify_consistency(valid, S, m, E) ==
  IF valid = {}
  THEN [NoVerification EXCEPT !.called = TRUE]
  ELSE LET res == [e \in Entities |-> verification_result(e, valid, S, m, E)]
       IN [called |-> TRUE, all_ok |-> \A e \in Entities : res[e] = "PASS", results |-> res]

\* -------------------------------------------------------- checkpoint store
\* cp_data: entity -> base_windows (an entity that is no key has no window)
EmptyStore == [e \in Entities |-> <<>>]

\* mutant: a window is created with a null cursor
NewWindow_NullCursor(start, end_time, mode, t, id) ==
  [start |-> start, end |-> end_time, status |-> "pending", mode |-> mode,
   last_checkpoint_time |-> NULL, last_checkpoint_id |-> NoneId,
   processed_count |-> 0, finish_exec_time |-> NULL]

NewWindow(start, end_time, mode, t, id) ==
  [start |-> start, end |-> end_time, status |-> "pending", mode |-> mode,
   last_checkpoint_time |-> t, last_checkpoint_id |-> id,
   processed_count |-> 0, finish_exec_time |-> NULL]

SameWindow(w, x) == w.start = x.start /\ w.end = x.end /\ w.mode = x.mode

\* mutant: the update goes to the entity's first window
MatchIndex_FirstWindow(cp, e, wtu) == IF Len(cp[e]) = 0 THEN 0 ELSE 1

\* the window update_checkpoint_window writes to: the first that matches
MatchIndex(cp, e, wtu) ==
  LET M == {i \in 1..Len(cp[e]) : SameWindow(cp[e][i], wtu)}
  IN IF M = {} THEN 0 ELSE CHOOSE i \in M : \A j \in M : i <= j

\* mutant: processed_count is overwritten by the delta instead of increased
update_checkpoint_window_Overwrite(cp, e, wtu, t, id, delta, status, tnow) ==
  LET i == MatchIndex(cp, e, wtu)
  IN IF i = 0 THEN cp
     ELSE [cp EXCEPT ![e][i] =
             [@ EXCEPT !.last_checkpoint_time = t,
                       !.last_checkpoint_id = Str(id),
                       !.processed_count = delta,
                       !.status = status,
                       !.finish_exec_time = IF status = "completed" THEN tnow ELSE @]]

update_checkpoint_window(cp, e, wtu, t, id, delta, status, tnow) ==
  LET i == MatchIndex(cp, e, wtu)
  IN IF i = 0 THEN cp
     ELSE [cp EXCEPT ![e][i] =
             [@ EXCEPT !.last_checkpoint_time = t,
                       !.last_checkpoint_id = Str(id),
                       !.processed_count = @ + delta,
                       !.status = status,
                       !.finish_exec_time = IF status = "completed" THEN tnow ELSE @]]

\* the checkpoint file: a complete JSON document, or what a crash inside
\* save_checkpoint leaves after open(..., "w") truncated it
ValidFile(cp) == [state |-> "valid", data |-> cp]
TornFile == [state |-> "torn", data |-> EmptyStore]

save_checkpoint(cp) == ValidFile(cp)

load_checkpoint(f) == IF f.state = "valid" THEN f.data ELSE EmptyStore

\* ------------------------------------------------------------------ state
VARIABLES
  src,                \* the PostgreSQL tables (unchanging)
  focus,              \* the entity under test: its table varies, its I/O can fail
  BATCH_SIZE,
  file,               \* migration_checkpoint.json
  mongo,              \* the sink collections
  now,                \* the wall clock
  runs,               \* processes started so far
  exit_code,          \* how the last process ended (NULL while none has)
  pc,                 \* where the running process is ("idle": none is running)
  cmd,                \* --full-sync | --incremental | --resume
  idx,                \* position in execution_order
  widx,               \* position of the engine's window in base_windows
  cp_data,
  VALID_EVENT_NOS,
  end_time_utc,       \* command_incremental's end of window
  last_t_iso, last_id, consecutive_errors,   \* migrate_table_window's locals
  hist,               \* history of the current engine invocation
  interrupted,        \* history: a process was killed between upsert and checkpoint
  reordered,          \* history: a failed bulk_write applied a request but not an earlier one
  out,                \* what a function called on its own returned
  faulted,            \* history: an iteration of the running (or last) process raised
  verification,       \* what verify_consistency found in the last process that called it
  delivered,          \* history: per stored window, the cursor it was created with and
                      \* the rows of the batches checkpointed for it
  peer                \* the memory of a second process, while the first one is scheduled

vars == <<src, focus, BATCH_SIZE, file, mongo, now, runs, exit_code, pc, cmd, idx, widx,
          cp_data, VALID_EVENT_NOS, end_time_utc, last_t_iso, last_id,
          consecutive_errors, hist, interrupted, reordered, out, faulted, verification,
          delivered, peer>>

inputs == <<src, focus, BATCH_SIZE, interrupted, reordered, out, peer>>
env == <<inputs, delivered>>
locals == <<last_t_iso, last_id, consecutive_errors>>
stats == <<faulted, verification>>

Killed == "killed"

NoneDelivered == [e \in Entities |-> <<>>]

\* history: a window was created with cursor (t, id)
Created(t, id) == [t |-> t, id |-> id, rows |-> <<>>]

\* history: a batch was checkpointed for the window update_checkpoint_window writes to
Deliver(d, cp, e, wtu, rows) ==
  LET i == MatchIndex(cp, e, wtu)
  IN IF i = 0 \/ i > Len(d[e]) THEN d ELSE [d EXCEPT ![e][i].rows = @ \o rows]

NoHist ==
  [entity |-> "none", window |-> 0, end |-> NULL, entry_t |-> NULL, entry_id |-> NoneId,
   entry_count |-> 0, visited |-> {}, revisited |-> {}, prev_batch |-> <<>>,
   cur_batch |-> <<>>, done |-> <<>>, failed |-> FALSE, fetched |-> NULL,
   fetch_t |-> NULL, fetch_id |-> NoneId, tripped |-> FALSE]

\* the memory of a process that has not been started
NoPeer ==
  [pc |-> "idle", cmd |-> "none", idx |-> 0, widx |-> 0, cp_data |-> EmptyStore,
   VALID_EVENT_NOS |-> {}, end_time_utc |-> NULL, last_t_iso |-> NULL, last_id |-> NoneId,
   consecutive_errors |-> 0, exit_code |-> "none", hist |-> NoHist, switches |-> 0]

Init ==
  /\ focus \in Entities
  /\ \E T \in Tables(focus) : src = [e \in Entities |-> IF e = focus THEN T ELSE FixedTable(e)]
  /\ BATCH_SIZE \in 1..MaxBatch
  /\ file = ValidFile(EmptyStore)
  /\ mongo = EmptySink
  /\ now = StartClock
  /\ runs = 0
  /\ exit_code = "none"
  /\ pc = "idle"
  /\ cmd = "none"
  /\ idx = 0
  /\ widx = 0
  /\ cp_data = EmptyStore
  /\ VALID_EVENT_NOS = {}
  /\ end_time_utc = NULL
  /\ last_t_iso = NULL
  /\ last_id = NoneId
  /\ consecutive_errors = 0
  /\ hist = NoHist
  /\ interrupted = FALSE
  /\ reordered = FALSE
  /\ out = <<>>
  /\ faulted = FALSE
  /\ verification = NoVerification
  /\ delivered = NoneDelivered
  /\ peer = NoPeer

\* the process ends: its memory is gone
Dead(code) ==
  /\ pc' = "idle"
  /\ cmd' = "none"
  /\ idx' = 0
  /\ widx' = 0
  /\ cp_data' = EmptyStore
  /\ VALID_EVENT_NOS' = {}
  /\ end_time_utc' = NULL
  /\ last_t_iso' = NULL
  /\ last_id' = NoneId
  /\ consecutive_errors' = 0
  /\ exit_code' = code

Cur == execution_order[idx]
Win == cp_data[Cur][widx]

\* SELECT event_no FROM gif_event WHERE event_no LIKE 'HCC%'
load_valid_event_nos(T) == {r.event_no : r \in {q \in T : IsHCC(q.event_no)}}

\* main() up to the dispatch of the command
Launch(c) ==
  /\ pc = "idle"
  /\ runs' = runs + 1
  /\ now' = now + 1
  /\ cmd' = c
  /\ cp_data' = load_checkpoint(file)
  /\ VALID_EVENT_NOS' = load_valid_event_nos(src["events"])
  /\ exit_code' = "none"
  /\ IF c = "full_sync"
     THEN pc' = "main" /\ idx' = 0 /\ end_time_utc' = NULL
     ELSE pc' = "orch" /\ idx' = 1
          /\ end_time_utc' = IF c = "incremental" THEN now ELSE NULL
  /\ faulted' = FALSE
  /\ verification' = NoVerification
  /\ UNCHANGED <<env, file, mongo, widx, locals, hist>>

\* a process is started
Start(c) == runs < MaxRuns /\ Launch(c)

\* mutant: the checkpoint of a full sync is reset before the connections are made
StartFails_AfterReset(c) ==
  /\ pc = "idle"
  /\ runs < MaxRuns
  /\ runs' = runs + 1
  /\ now' = now + 1
  /\ exit_code' = "1"
  /\ faulted' = FALSE
  /\ verification' = NoVerification
  /\ file' = IF c = "full_sync"
             THEN save_checkpoint([e \in Entities |-> <<[start |-> Epoch, end |-> MaxEnd,
                     status |-> "pending", mode |-> "full", last_checkpoint_time |-> Epoch,
                     last_checkpoint_id |-> NoneId, processed_count |-> 0,
                     finish_exec_time |-> NULL]>>])
             ELSE file
  /\ UNCHANGED <<env, mongo, pc, cmd, idx, widx, cp_data, VALID_EVENT_NOS, end_time_utc,
                 locals, hist>>

\* main() when init_db_conn cannot connect to PostgreSQL or MongoDB
\* (sys.exit(1)) or load_valid_event_nos raises (caught by main, sys.exit(1)):
\* the process ends before a command is dispatched
StartFails(c) ==
  /\ pc = "idle"
  /\ runs < MaxRuns
  /\ runs' = runs + 1
  /\ now' = now + 1
  /\ exit_code' = "1"
  /\ faulted' = FALSE
  /\ verification' = NoVerification
  /\ UNCHANGED <<env, file, mongo, pc, cmd, idx, widx, cp_data, VALID_EVENT_NOS,
                 end_time_utc, locals, hist>>

\* mutant: the windows are appended to the ones already stored (no cp_data = {})
FullSyncInit_KeepsOld ==
  /\ pc = "main"
  /\ cmd = "full_sync"
  /\ cp_data' = [e \in Entities |->
                   cp_data[e] \o <<NewWindow(Epoch, MaxEnd, "full", Epoch, NoneId)>>]
  /\ file' = save_checkpoint(cp_data')
  /\ pc' = "orch"
  /\ idx' = 1
  /\ delivered' = [e \in Entities |-> Append(delivered[e], Created(Epoch, NoneId))]
  /\ UNCHANGED <<stats, inputs, mongo, now, runs, exit_code, cmd, widx, VALID_EVENT_NOS,
                 end_time_utc, locals, hist>>

\* command_full_sync, up to the loop over execution_order
FullSyncInit ==
  /\ pc = "main"
  /\ cmd = "full_sync"
  /\ cp_data' = [e \in Entities |-> <<NewWindow(Epoch, MaxEnd, "full", Epoch, NoneId)>>]
  /\ file' = save_checkpoint(cp_data')
  /\ pc' = "orch"
  /\ idx' = 1
  /\ delivered' = [e \in Entities |-> <<Created(Epoch, NoneId)>>]
  /\ UNCHANGED <<stats, inputs, mongo, now, runs, exit_code, cmd, widx, VALID_EVENT_NOS,
                 end_time_utc, locals, hist>>

\* command_full_sync's loop: window = cp_data[table_key]["base_windows"][0]
OrchFull ==
  /\ pc = "orch"
  /\ cmd = "full_sync"
  /\ idx <= Len(execution_order)
  /\ widx' = 1
  /\ pc' = "call"
  /\ UNCHANGED <<stats, env, file, mongo, now, runs, exit_code, cmd, idx, cp_data,
                 VALID_EVENT_NOS, end_time_utc, locals, hist>>

\* mutant: the latest completed window of any table (a global checkpoint)
get_latest_checkpoint_for_table_Global(f, e) ==
  LET cp == load_checkpoint(f)
      C == {p \in Entities \X (1..(MaxRuns + 1)) :
              p[2] <= Len(cp[p[1]]) /\ cp[p[1]][p[2]].status = "completed"}
      ft(p) == cp[p[1]][p[2]].finish_exec_time
      latest == CHOOSE p \in C : \A q \in C : ft(p) >= ft(q)
  IN IF C = {} THEN [t |-> Epoch, id |-> NoneId]
     ELSE [t |-> cp[latest[1]][latest[2]].last_checkpoint_time,
           id |-> cp[latest[1]][latest[2]].last_checkpoint_id]

\* mutant: the completed window that comes last in base_windows
get_latest_checkpoint_for_table_LastInList(f, e) ==
  LET ws == load_checkpoint(f)[e]
      C == {i \in 1..Len(ws) : ws[i].status = "completed"}
      latest == CHOOSE i \in C : \A j \in C : i >= j
  IN IF C = {} THEN [t |-> Epoch, id |-> NoneId]
     ELSE [t |-> ws[latest].last_checkpoint_time, id |-> ws[latest].last_checkpoint_id]

get_latest_checkpoint_for_table(f, e) ==
  LET ws == load_checkpoint(f)[e]
      C == {i \in 1..Len(ws) : ws[i].status = "completed"}
      ft(i) == IF ws[i].finish_exec_time = NULL THEN Epoch ELSE ws[i].finish_exec_time
      latest == CHOOSE i \in C : \A j \in C : ft(i) > ft(j) \/ (ft(i) = ft(j) /\ i <= j)
  IN IF C = {} THEN [t |-> Epoch, id |-> NoneId]
     ELSE [t |-> ws[latest].last_checkpoint_time, id |-> ws[latest].last_checkpoint_id]

\* mutant: every incremental window ends at the same far-future time
IncrementalNewWindow_SameEnd ==
  /\ pc = "orch"
  /\ cmd = "incremental"
  /\ idx <= Len(execution_order)
  /\ LET latest == get_latest_checkpoint_for_table(file, Cur)
         loaded == load_checkpoint(file)
         new_window == NewWindow(latest.t, MaxEnd, "incremental", latest.t, latest.id)
     IN /\ cp_data' = [loaded EXCEPT ![Cur] = Append(@, new_window)]
        /\ widx' = Len(loaded[Cur]) + 1
  /\ file' = save_checkpoint(cp_data')
  /\ pc' = "call"
  /\ delivered' = [delivered EXCEPT ![Cur] =
                      Append(@, Created(cp_data'[Cur][widx'].last_checkpoint_time,
                                        cp_data'[Cur][widx'].last_checkpoint_id))]
  /\ UNCHANGED <<stats, inputs, mongo, now, runs, exit_code, cmd, idx, VALID_EVENT_NOS,
                 end_time_utc, locals, hist>>

\* command_incremental's loop body up to the call of migrate_table_window
IncrementalNewWindow ==
  /\ pc = "orch"
  /\ cmd = "incremental"
  /\ idx <= Len(execution_order)
  /\ LET latest == get_latest_checkpoint_for_table(file, Cur)
         loaded == load_checkpoint(file)
         new_window == NewWindow(latest.t, end_time_utc, "incremental", latest.t, latest.id)
     IN /\ cp_data' = [loaded EXCEPT ![Cur] = Append(@, new_window)]
        /\ widx' = Len(loaded[Cur]) + 1
  /\ file' = save_checkpoint(cp_data')
  /\ pc' = "call"
  /\ delivered' = [delivered EXCEPT ![Cur] =
                      Append(@, Created(cp_data'[Cur][widx'].last_checkpoint_time,
                                        cp_data'[Cur][widx'].last_checkpoint_id))]
  /\ UNCHANGED <<stats, inputs, mongo, now, runs, exit_code, cmd, idx, VALID_EVENT_NOS,
                 end_time_utc, locals, hist>>

\* command_resume: load the file for the table, go to its next window whose
\* status is pending or in_progress, or to the next table when there is none
ResumeNext ==
  /\ cmd = "resume"
  /\ \/ pc = "orch" /\ idx <= Len(execution_order)
     \/ pc = "scan"
  /\ LET cp == IF pc = "orch" THEN load_checkpoint(file) ELSE cp_data
         from == IF pc = "orch" THEN 1 ELSE widx
         R == {i \in from..Len(cp[Cur]) : cp[Cur][i].status \in {"pending", "in_progress"}}
     IN /\ cp_data' = cp
        /\ IF R = {}
           THEN pc' = "orch" /\ idx' = idx + 1 /\ widx' = 0
           ELSE pc' = "call" /\ idx' = idx /\ widx' = CHOOSE i \in R : \A j \in R : i <= j
  /\ UNCHANGED <<stats, env, file, mongo, now, runs, exit_code, cmd, VALID_EVENT_NOS,
                 end_time_utc, locals, hist>>

\* mutant: a verification that reports a mismatch makes the exit code 1
Finish_ExitOnMismatch ==
  /\ pc = "orch"
  /\ idx > Len(execution_order)
  /\ \E E \in VerifyFaults(focus) :
        verification' = run_verify_consistency(VALID_EVENT_NOS, src, mongo, E)
  /\ Dead(IF verification'.all_ok THEN "0" ELSE "1")
  /\ hist' = NoHist
  /\ UNCHANGED <<env, file, mongo, now, runs, faulted>>

\* the command returned: main() calls verify_consistency, ignores what it
\* returns, and ends with exit code 0
Finish ==
  /\ pc = "orch"
  /\ idx > Len(execution_order)
  /\ \E E \in VerifyFaults(focus) :
        verification' = run_verify_consistency(VALID_EVENT_NOS, src, mongo, E)
  /\ Dead("0")
  /\ hist' = NoHist
  /\ UNCHANGED <<env, file, mongo, now, runs, faulted>>

\* ---------------------------------------------------------- window engine
Range(q) == {q[i] : i \in 1..Len(q)}

\* rows = fetch_batch(table_key, window["end"], last_t_iso, last_id, BATCH_SIZE)
Rows == fetch_batch(Cur, src[Cur], VALID_EVENT_NOS, Win.end, last_t_iso, last_id, BATCH_SIZE)

\* last_row.get(mod_date_field) or last_row.get(add_date_field)
time_key_value(r) == IF r.mod_date # NULL THEN r.mod_date ELSE r.add_date

\* history: a fetch returned rows
Fetched(h, rows) ==
  [h EXCEPT !.fetched = Len(rows), !.fetch_t = last_t_iso, !.fetch_id = last_id]

\* history: rows were passed to upsert_batch
Handed(h, rows) ==
  [Fetched(h, rows) EXCEPT !.visited = @ \cup Range(rows),
                           !.revisited = @ \cup (Range(rows) \cap h.visited),
                           !.prev_batch = h.cur_batch,
                           !.cur_batch = rows]

\* the window of the call as the checkpoint file has it (as memory has it, when
\* another process took it out of the file)
OnDisk ==
  IF widx \in 1..Len(load_checkpoint(file)[Cur]) THEN load_checkpoint(file)[Cur][widx] ELSE Win

\* mutant: entering the engine leaves the window's status as it was
EngineEnter_KeepsStatus ==
  /\ pc = "call"
  /\ last_t_iso' = Win.last_checkpoint_time
  /\ last_id' = Win.last_checkpoint_id
  /\ consecutive_errors' = 0
  /\ cp_data' = update_checkpoint_window(cp_data, Cur, Win, Win.last_checkpoint_time,
                                         Win.last_checkpoint_id, 0, Win.status, now)
  /\ file' = save_checkpoint(cp_data')
  /\ pc' = "engine"
  /\ hist' = [NoHist EXCEPT !.entity = Cur, !.window = widx, !.end = Win.end,
                            !.entry_t = OnDisk.last_checkpoint_time,
                            !.entry_id = OnDisk.last_checkpoint_id,
                            !.entry_count = OnDisk.processed_count]
  /\ UNCHANGED <<stats, env, mongo, now, runs, exit_code, cmd, idx, widx, VALID_EVENT_NOS,
                 end_time_utc>>

\* mutant: entering the engine starts processed_count again from 0
EngineEnter_ResetsCount ==
  /\ pc = "call"
  /\ last_t_iso' = Win.last_checkpoint_time
  /\ last_id' = Win.last_checkpoint_id
  /\ consecutive_errors' = 0
  /\ cp_data' = update_checkpoint_window(cp_data, Cur, Win, Win.last_checkpoint_time,
                                         Win.last_checkpoint_id, 0 - Win.processed_count,
                                         "in_progress", now)
  /\ file' = save_checkpoint(cp_data')
  /\ pc' = "engine"
  /\ hist' = [NoHist EXCEPT !.entity = Cur, !.window = widx, !.end = Win.end,
                            !.entry_t = OnDisk.last_checkpoint_time,
                            !.entry_id = OnDisk.last_checkpoint_id,
                            !.entry_count = OnDisk.processed_count]
  /\ UNCHANGED <<stats, env, mongo, now, runs, exit_code, cmd, idx, widx, VALID_EVENT_NOS,
                 end_time_utc>>

\* migrate_table_window up to the while loop
EngineEnter ==
  /\ pc = "call"
  /\ last_t_iso' = Win.last_checkpoint_time
  /\ last_id' = Win.last_checkpoint_id
  /\ consecutive_errors' = 0
  /\ cp_data' = update_checkpoint_window(cp_data, Cur, Win, Win.last_checkpoint_time,
                                         Win.last_checkpoint_id, 0, "in_progress", now)
  /\ file' = save_checkpoint(cp_data')
  /\ pc' = "engine"
  /\ hist' = [NoHist EXCEPT !.entity = Cur, !.window = widx, !.end = Win.end,
                            !.entry_t = OnDisk.last_checkpoint_time,
                            !.entry_id = OnDisk.last_checkpoint_id,
                            !.entry_count = OnDisk.processed_count]
  /\ UNCHANGED <<stats, env, mongo, now, runs, exit_code, cmd, idx, widx, VALID_EVENT_NOS,
                 end_time_utc>>

\* migrate_table_window returned to the command's loop
EngineReturn ==
  IF cmd = "resume"
  THEN pc' = "scan" /\ idx' = idx /\ widx' = widx + 1
  ELSE pc' = "orch" /\ idx' = idx + 1 /\ widx' = 0

\* mutant: a batch shorter than BATCH_SIZE is taken as the end of the window
BatchEmpty_ShortBatch ==
  /\ pc = "engine"
  /\ Len(Rows) < BATCH_SIZE
  /\ cp_data' = update_checkpoint_window(cp_data, Cur, Win, last_t_iso, last_id, 0,
                                         "completed", now)
  /\ file' = save_checkpoint(cp_data')
  /\ now' = now + 1
  /\ EngineReturn
  /\ hist' = Fetched(hist, Rows)
  /\ UNCHANGED <<stats, env, mongo, runs, exit_code, cmd, VALID_EVENT_NOS, end_time_utc, locals>>

\* an iteration whose fetch returns no row: the window is completed
BatchEmpty ==
  /\ pc = "engine"
  /\ Rows = <<>>
  /\ cp_data' = update_checkpoint_window(cp_data, Cur, Win, last_t_iso, last_id, 0,
                                         "completed", now)
  /\ file' = save_checkpoint(cp_data')
  /\ now' = now + 1
  /\ EngineReturn
  /\ hist' = Fetched(hist, <<>>)
  /\ UNCHANGED <<stats, env, mongo, runs, exit_code, cmd, VALID_EVENT_NOS, end_time_utc, locals>>

\* mutant: the new cursor is taken from the first row of the batch
BatchSuccess_FirstRowCursor ==
  /\ pc = "engine"
  /\ Rows # <<>>
  /\ LET last_row == Rows[Len(Rows)]
     IN /\ time_key_value(last_row) # NULL
        /\ IdOf(Cur, last_row).k # "none"
        /\ last_t_iso' = time_key_value(last_row)
        /\ last_id' = IdOf(Cur, last_row)
  /\ mongo' = upsert_batch(mongo, Cur, Rows)
  /\ cp_data' = update_checkpoint_window(cp_data, Cur, Win, Eff(Rows[1]), IdOf(Cur, Rows[1]),
                                         Len(Rows), "in_progress", now)
  /\ file' = save_checkpoint(cp_data')
  /\ consecutive_errors' = 0
  /\ hist' = [Handed(hist, Rows) EXCEPT !.done = @ \o Rows]
  /\ delivered' = Deliver(delivered, cp_data, Cur, Win, Rows)
  /\ UNCHANGED <<stats, inputs, now, runs, exit_code, pc, cmd, idx, widx, VALID_EVENT_NOS,
                 end_time_utc>>

\* mutant: the batch's checkpoint stays in memory (no save_checkpoint)
BatchSuccess_NoSave ==
  /\ pc = "engine"
  /\ Rows # <<>>
  /\ LET last_row == Rows[Len(Rows)]
     IN /\ time_key_value(last_row) # NULL
        /\ IdOf(Cur, last_row).k # "none"
        /\ last_t_iso' = time_key_value(last_row)
        /\ last_id' = IdOf(Cur, last_row)
  /\ mongo' = upsert_batch(mongo, Cur, Rows)
  /\ cp_data' = update_checkpoint_window(cp_data, Cur, Win, last_t_iso', last_id',
                                         Len(Rows), "in_progress", now)
  /\ consecutive_errors' = 0
  /\ hist' = [Handed(hist, Rows) EXCEPT !.done = @ \o Rows]
  /\ delivered' = Deliver(delivered, cp_data, Cur, Win, Rows)
  /\ UNCHANGED <<stats, inputs, file, now, runs, exit_code, pc, cmd, idx, widx, VALID_EVENT_NOS,
                 end_time_utc>>

\* an iteration that fetches, upserts and checkpoints a batch
BatchSuccess ==
  /\ pc = "engine"
  /\ Rows # <<>>
  /\ LET last_row == Rows[Len(Rows)]
     IN /\ time_key_value(last_row) # NULL
        /\ IdOf(Cur, last_row).k # "none"
        /\ last_t_iso' = time_key_value(last_row)
        /\ last_id' = IdOf(Cur, last_row)
  /\ mongo' = upsert_batch(mongo, Cur, Rows)
  /\ cp_data' = update_checkpoint_window(cp_data, Cur, Win, last_t_iso', last_id',
                                         Len(Rows), "in_progress", now)
  /\ file' = save_checkpoint(cp_data')
  /\ consecutive_errors' = 0
  /\ hist' = [Handed(hist, Rows) EXCEPT !.done = @ \o Rows]
  /\ delivered' = Deliver(delivered, cp_data, Cur, Win, Rows)
  /\ UNCHANGED <<stats, inputs, now, runs, exit_code, pc, cmd, idx, widx, VALID_EVENT_NOS,
                 end_time_utc>>

\* mutant: the breaker's update counts the failed batch as processed
ExceptionBranch_CountsFailed(h) ==
  IF consecutive_errors + 1 >= BreakerLimit
  THEN /\ file' = save_checkpoint(update_checkpoint_window(cp_data, Cur, Win, last_t_iso,
                                                           last_id, Len(h.cur_batch),
                                                           "pending", now))
       /\ Dead("1")
       /\ hist' = [h EXCEPT !.failed = TRUE, !.tripped = TRUE]
  ELSE /\ consecutive_errors' = consecutive_errors + 1
       /\ hist' = [h EXCEPT !.failed = TRUE]
       /\ UNCHANGED <<file, exit_code, pc, cmd, idx, widx, cp_data, VALID_EVENT_NOS,
                      end_time_utc, last_t_iso, last_id>>

\* mutant: the breaker's update writes the cursor the window had when the
\* engine was entered instead of the one of the last successful batch
ExceptionBranch_EntryCursor(h) ==
  IF consecutive_errors + 1 >= BreakerLimit
  THEN /\ file' = save_checkpoint(update_checkpoint_window(cp_data, Cur, Win, h.entry_t,
                                                           h.entry_id, 0, "pending", now))
       /\ Dead("1")
       /\ hist' = [h EXCEPT !.failed = TRUE, !.tripped = TRUE]
  ELSE /\ consecutive_errors' = consecutive_errors + 1
       /\ hist' = [h EXCEPT !.failed = TRUE]
       /\ UNCHANGED <<file, exit_code, pc, cmd, idx, widx, cp_data, VALID_EVENT_NOS,
                      end_time_utc, last_t_iso, last_id>>

\* mutant: the breaker's update writes the key of the failed batch's last row
ExceptionBranch_FailedBatchCursor(h) ==
  IF consecutive_errors + 1 >= BreakerLimit
  THEN /\ file' = save_checkpoint(update_checkpoint_window(cp_data, Cur, Win,
                     Eff(h.cur_batch[Len(h.cur_batch)]),
                     IdOf(Cur, h.cur_batch[Len(h.cur_batch)]), 0, "pending", now))
       /\ Dead("1")
       /\ hist' = [h EXCEPT !.failed = TRUE, !.tripped = TRUE]
  ELSE /\ consecutive_errors' = consecutive_errors + 1
       /\ hist' = [h EXCEPT !.failed = TRUE]
       /\ UNCHANGED <<file, exit_code, pc, cmd, idx, widx, cp_data, VALID_EVENT_NOS,
                      end_time_utc, last_t_iso, last_id>>

\* except Exception: count the failure; at the fifth in a row set the window
\* to pending and re-raise, which main() turns into sys.exit(1)
ExceptionBranch(h) ==
  IF consecutive_errors + 1 >= BreakerLimit
  THEN /\ file' = save_checkpoint(update_checkpoint_window(cp_data, Cur, Win, last_t_iso,
                                                           last_id, 0, "pending", now))
       /\ Dead("1")
       /\ hist' = [h EXCEPT !.failed = TRUE, !.tripped = TRUE]
  ELSE /\ consecutive_errors' = consecutive_errors + 1
       /\ hist' = [h EXCEPT !.failed = TRUE]
       /\ UNCHANGED <<file, exit_code, pc, cmd, idx, widx, cp_data, VALID_EVENT_NOS,
                      end_time_utc, last_t_iso, last_id>>

\* mutant: a corrupt last row is logged and the cursor advances past it
BatchCorruptLast_AdvancesCursor ==
  /\ pc = "engine"
  /\ Rows # <<>>
  /\ time_key_value(Rows[Len(Rows)]) = NULL
  /\ mongo' = upsert_batch(mongo, Cur, Rows)
  /\ last_t_iso' = Eff(Rows[Len(Rows)])
  /\ last_id' = IdOf(Cur, Rows[Len(Rows)])
  /\ cp_data' = update_checkpoint_window(cp_data, Cur, Win, last_t_iso', last_id',
                                         Len(Rows), "in_progress", now)
  /\ file' = save_checkpoint(cp_data')
  /\ consecutive_errors' = 0
  /\ hist' = [Handed(hist, Rows) EXCEPT !.done = @ \o Rows]
  /\ faulted' = TRUE
  /\ delivered' = Deliver(delivered, cp_data, Cur, Win, Rows)
  /\ UNCHANGED <<inputs, now, runs, exit_code, pc, cmd, idx, widx, VALID_EVENT_NOS,
                 end_time_utc, verification>>

\* an iteration whose batch ends with a row without mod_date and add_date:
\* raise ValueError after the upsert
BatchCorruptLast ==
  /\ pc = "engine"
  /\ Rows # <<>>
  /\ time_key_value(Rows[Len(Rows)]) = NULL
  /\ mongo' = upsert_batch(mongo, Cur, Rows)
  /\ ExceptionBranch(Handed(hist, Rows))
  /\ faulted' = TRUE
  /\ UNCHANGED <<env, now, runs, verification>>

\* an iteration whose bulk_write raises, having applied some of its requests
UpsertFails ==
  /\ pc = "engine"
  /\ Cur = focus
  /\ Rows # <<>>
  /\ \E S \in SUBSET (1..Len(Rows)) :
        /\ mongo' = ApplyRows(mongo, Cur, Rows, S, 1)
        /\ reordered' = (reordered \/ \E i \in S : \E j \in 1..(i - 1) : j \notin S)
  /\ ExceptionBranch(Handed(hist, Rows))
  /\ faulted' = TRUE
  /\ UNCHANGED <<src, focus, BATCH_SIZE, interrupted, out, delivered, peer, now, runs,
                 verification>>

\* an iteration whose fetch raises psycopg2.Error: count it and roll back
FetchFailsPg ==
  /\ pc = "engine"
  /\ Cur = focus
  /\ consecutive_errors < MaxErrors
  /\ consecutive_errors' = consecutive_errors + 1
  /\ hist' = [hist EXCEPT !.failed = TRUE]
  /\ faulted' = TRUE
  /\ UNCHANGED <<env, file, mongo, now, runs, exit_code, pc, cmd, idx, widx, cp_data,
                 VALID_EVENT_NOS, end_time_utc, last_t_iso, last_id, verification>>

\* ---------------------------------------------------------------- crashes
\* the process can be killed while it works on the entity under test
CanCrash ==
  /\ pc \in {"orch", "call", "engine", "scan"}
  /\ idx \in 1..Len(execution_order)
  /\ Cur = focus

\* the process is killed between two steps
Crash ==
  /\ CanCrash
  /\ Dead(Killed)
  /\ hist' = NoHist
  /\ UNCHANGED <<stats, env, file, mongo, now, runs>>

\* the process is killed after upsert_batch, before update_checkpoint_window
CrashAfterUpsert ==
  /\ CanCrash
  /\ pc = "engine"
  /\ Rows # <<>>
  /\ mongo' = upsert_batch(mongo, Cur, Rows)
  /\ hist' = NoHist
  /\ interrupted' = TRUE
  /\ Dead(Killed)
  /\ UNCHANGED <<stats, src, focus, BATCH_SIZE, reordered, out, delivered, peer, file, now, runs>>

\* the next step of the process writes the checkpoint file
AboutToSave ==
  /\ CanCrash
  /\ pc \in {"call", "engine"} \/ (pc = "orch" /\ cmd = "incremental")

\* the process is killed inside save_checkpoint, after open(..., "w")
TornCrash ==
  /\ AboutToSave
  /\ file' = TornFile
  /\ mongo' = IF pc = "engine" /\ Rows # <<>> THEN upsert_batch(mongo, Cur, Rows) ELSE mongo
  /\ Dead(Killed)
  /\ hist' = NoHist
  /\ delivered' = NoneDelivered
  /\ UNCHANGED <<stats, inputs, now, runs>>

Commands == {"full_sync", "incremental", "resume"}

Run ==
  \/ \E c \in Commands : Start(c)
  \/ \E c \in Commands : StartFails(c)
  \/ FullSyncInit
  \/ OrchFull
  \/ IncrementalNewWindow
  \/ ResumeNext
  \/ Finish
  \/ EngineEnter
  \/ BatchEmpty
  \/ BatchSuccess
  \/ BatchCorruptLast
  \/ UpsertFails
  \/ FetchFailsPg

Next ==
  \/ Run
  \/ Crash
  \/ CrashAfterUpsert
  \/ TornCrash

Spec == Init /\ [][Next]_vars

\* ------------------------------------------------- functions on their own
\* fetch_batch and command_incremental's opening of a window, each called
\* once on inputs drawn from the values a run can hand them.

\* a timestamp before 1970-01-01
BeforeEpoch == Epoch - 2

\* the tables fetch_batch can be called on: those of a run, and those with a
\* row last modified before the epoch
FetchTables(e) ==
  {T \in SUBSET (RowPool(e) \cup {Row(1, 1, NULL, BeforeEpoch, "A")}) :
     \A r, q \in T : r.id = q.id => r = q}

\* the cursors a window can hold: none (the epoch and no id), or the
\* timestamp and the id, raw or persisted as a string, of a row
FetchCursors ==
  {<<Epoch, NoneId>>} \cup
  {<<t, id>> : t \in {BeforeEpoch} \cup (1..MaxId),
               id \in {IntId(i) : i \in 1..MaxId} \cup {StrId(i) : i \in 1..MaxId}}

Quiet ==
  /\ mongo = EmptySink
  /\ exit_code = "none"
  /\ widx = 0
  /\ consecutive_errors = 0
  /\ hist = NoHist
  /\ interrupted = FALSE
  /\ reordered = FALSE
  /\ out = <<>>
  /\ faulted = FALSE
  /\ verification = NoVerification
  /\ delivered = NoneDelivered
  /\ peer = NoPeer

FetchInit ==
  /\ focus \in Entities
  /\ \E T \in FetchTables(focus) : src = [e \in Entities |-> IF e = focus THEN T ELSE {}]
  /\ BATCH_SIZE \in 1..MaxBatch
  /\ VALID_EVENT_NOS \in SUBSET (1..MaxId)
  /\ end_time_utc \in (1..StartClock) \cup {MaxEnd}
  /\ \E c \in FetchCursors : last_t_iso = c[1] /\ last_id = c[2]
  /\ file = ValidFile(EmptyStore)
  /\ cp_data = EmptyStore
  /\ now = StartClock
  /\ runs = 0
  /\ pc = "fetch"
  /\ cmd = "none"
  /\ idx = 0
  /\ Quiet

\* rows = fetch_batch(table_key, end_time, last_checkpoint_time, last_checkpoint_id, BATCH_SIZE)
UnitFetch ==
  /\ pc = "fetch"
  /\ out' = fetch_batch(focus, src[focus], VALID_EVENT_NOS, end_time_utc, last_t_iso,
                        last_id, BATCH_SIZE)
  /\ pc' = "fetched"
  /\ UNCHANGED <<stats, src, focus, BATCH_SIZE, interrupted, reordered, delivered, peer, file,
                 mongo, now, runs,
                 exit_code, cmd, idx, widx, cp_data, VALID_EVENT_NOS, end_time_utc, locals,
                 hist>>

\* a window as an earlier run can have left it at position i of base_windows
StoredWindow(i, status, fin, c) ==
  [NewWindow(c[1], IF i = 1 THEN MaxEnd ELSE i, IF i = 1 THEN "full" ELSE "incremental",
             c[1], c[2])
     EXCEPT !.status = status, !.finish_exec_time = fin]

StoredWindows(i) ==
  {StoredWindow(i, sf[1], sf[2], c) :
     sf \in {<<"pending", NULL>>, <<"in_progress", NULL>>} \cup
            {<<"completed", t>> : t \in 1..StartClock},
     c \in {<<Epoch, NoneId>>} \cup {<<t, StrId(t)>> : t \in 1..MaxId}}

\* the base_windows earlier runs can have left for one table
StoredLists ==
  {<<>>} \cup {<<w>> : w \in StoredWindows(1)}
         \cup {<<w, x>> : w \in StoredWindows(1), x \in StoredWindows(2)}

\* command_incremental about to open the window of table execution_order[idx]
IncrementalInit ==
  /\ idx \in 1..Len(execution_order)
  /\ focus = execution_order[idx]
  /\ src = [e \in Entities |-> FixedTable(e)]
  /\ BATCH_SIZE = 1
  /\ VALID_EVENT_NOS = load_valid_event_nos(src["events"])
  /\ \E L \in StoredLists :
       \E O \in {<<>>, <<StoredWindow(1, "completed", StartClock + 1, <<MaxId + 1, StrId(MaxId + 1)>>)>>} :
          file = ValidFile([e \in Entities |-> IF e = focus THEN L ELSE O])
  /\ cp_data = load_checkpoint(file)
  /\ now = StartClock + 3
  /\ end_time_utc = StartClock + 2
  /\ runs = 1
  /\ pc = "orch"
  /\ cmd = "incremental"
  /\ last_t_iso = NULL
  /\ last_id = NoneId
  /\ Quiet

UnitInit == FetchInit \/ IncrementalInit

UnitNext == UnitFetch \/ IncrementalNewWindow

UnitSpec == UnitInit /\ [][UnitNext]_vars

\* ------------------------------------------------- the engine's loop, live
\* The while loop of migrate_table_window keeps iterating for as long as the
\* process runs; what an iteration does depends on the source and the sink.

\* an iteration whose fetch raises psycopg2.Error when consecutive_errors has
\* reached MaxErrors: the counter goes on growing and nothing tests it, so
\* MaxErrors stands for the counts MaxErrors, MaxErrors + 2, ... and
\* MaxErrors + 1 for the ones in between (all of them are >= BreakerLimit)
FetchFailsPgAgain ==
  /\ pc = "engine"
  /\ Cur = focus
  /\ consecutive_errors >= MaxErrors
  /\ consecutive_errors' = IF consecutive_errors = MaxErrors THEN MaxErrors + 1 ELSE MaxErrors
  /\ hist' = [hist EXCEPT !.failed = TRUE]
  /\ faulted' = TRUE
  /\ UNCHANGED <<env, file, mongo, now, runs, exit_code, pc, cmd, idx, widx, cp_data,
                 VALID_EVENT_NOS, end_time_utc, last_t_iso, last_id, verification>>

\* one pass through the body of the while loop
EngineIteration ==
  \/ BatchEmpty
  \/ BatchSuccess
  \/ BatchCorruptLast
  \/ UpsertFails
  \/ FetchFailsPg
  \/ FetchFailsPgAgain

LiveNext == Next \/ FetchFailsPgAgain

\* the runs whose liveness is checked: one table of at most one row, in
\* batches of one
LiveInit == Init /\ BATCH_SIZE = 1 /\ Cardinality(src[focus]) <= 1

LiveSpec == LiveInit /\ [][LiveNext]_vars /\ WF_vars(EngineIteration)

\* ------------------------------------------------ the join of coupon_burui
\* fetch_batch's SELECT for coupon_burui joins every row of the table to the
\* rows of gif_event_coupon_setting with its coupon_setting_no; nothing in the
\* program makes that number unique in the setting table, so one row of
\* coupon_burui can come back once per event of its settings.  (Rows with
\* equal effective timestamp and id come back in an order ORDER BY leaves
\* open; RowLE takes the order of their event_no.)

\* the events of the settings a coupon_burui row can join to
JoinEvents == {1, 2}

\* the events of the settings that have one coupon_setting_no: one setting,
\* or two settings of two events
JoinSettings == {{1}, JoinEvents}

\* the result rows of the join for the coupon_burui row of primary key i
JoinVariants(i) ==
  {{[r EXCEPT !.event_no = ev] : ev \in E} :
     r \in {q \in RowVariants("coupon_burui", i) : q.event_no \in JoinEvents},
     E \in JoinSettings}

\* the results the join can have: for every primary key none, or the rows of
\* one coupon_burui row
JoinTables ==
  {T \in SUBSET UNION {UNION JoinVariants(i) : i \in 1..MaxId} :
     \A i \in 1..MaxId : {r \in T : r.id = i} \in JoinVariants(i) \cup {{}}}

\* an events table with every event a setting can belong to
JoinParents == {Row(ev, ev, 1, NULL, "A") : ev \in JoinEvents}

JoinInit ==
  /\ focus = "coupon_burui"
  /\ \E T \in JoinTables :
        src = [e \in Entities |-> IF e = focus THEN T
                                  ELSE IF e = "events" THEN JoinParents ELSE FixedTable(e)]
  /\ BATCH_SIZE \in 1..MaxBatch
  /\ file = ValidFile(EmptyStore)
  /\ cp_data = EmptyStore
  /\ VALID_EVENT_NOS = {}
  /\ now = StartClock
  /\ runs = 0
  /\ pc = "idle"
  /\ cmd = "none"
  /\ idx = 0
  /\ end_time_utc = NULL
  /\ last_t_iso = NULL
  /\ last_id = NoneId
  /\ Quiet

JoinSpec == JoinInit /\ [][Next]_vars

\* ---------------------------------------------------------- two processes
\* Two migration processes started on the same checkpoint file and the same
\* databases.  Each has its own memory (its globals and the locals of its
\* calls); the variables above hold the memory of the one that is scheduled,
\* peer that of the other.  Nothing in the program locks the file, so the
\* processes interleave at every step.

\* the number of times the scheduler changes the running process in one behaviour
MaxSwitches == 2

\* the operating system schedules the other process
Switch ==
  /\ pc # "idle" \/ peer.pc # "idle"
  /\ peer.switches < MaxSwitches
  /\ peer' = [pc |-> pc, cmd |-> cmd, idx |-> idx, widx |-> widx, cp_data |-> cp_data,
              VALID_EVENT_NOS |-> VALID_EVENT_NOS, end_time_utc |-> end_time_utc,
              last_t_iso |-> last_t_iso, last_id |-> last_id,
              consecutive_errors |-> consecutive_errors, exit_code |-> exit_code,
              hist |-> hist, switches |-> peer.switches + 1]
  /\ pc' = peer.pc
  /\ cmd' = peer.cmd
  /\ idx' = peer.idx
  /\ widx' = peer.widx
  /\ cp_data' = peer.cp_data
  /\ VALID_EVENT_NOS' = peer.VALID_EVENT_NOS
  /\ end_time_utc' = peer.end_time_utc
  /\ last_t_iso' = peer.last_t_iso
  /\ last_id' = peer.last_id
  /\ consecutive_errors' = peer.consecutive_errors
  /\ exit_code' = peer.exit_code
  /\ hist' = peer.hist
  /\ UNCHANGED <<stats, src, focus, BATCH_SIZE, interrupted, reordered, out, delivered, file,
                 mongo, now, runs>>

\* the runs of the two processes: tables of one row, batches of one
PairInit == Init /\ BATCH_SIZE = 1 /\ focus = "events" /\ src["events"] = FixedTable("events")

PairNext ==
  \/ \E c \in Commands : Start(c)
  \/ FullSyncInit
  \/ OrchFull
  \/ IncrementalNewWindow
  \/ ResumeNext
  \/ Finish
  \/ EngineEnter
  \/ BatchEmpty
  \/ BatchSuccess
  \/ Switch

PairSpec == PairInit /\ [][PairNext]_vars

\* ------------------------------------------------------ four runs in a row
\* Runs of the three commands one after the other, killed or not, on an
\* events table with a row of timestamp 1 and a row of timestamp 2.

\* the number of processes started in one behaviour
MaxLongRuns == 4

LongInit ==
  /\ Init
  /\ BATCH_SIZE = 2
  /\ focus = "events"
  /\ src["events"] = {Row(1, 1, 1, NULL, "A"), Row(2, 2, 1, 2, "B")}

LongNext ==
  \/ \E c \in Commands : runs < MaxLongRuns /\ Launch(c)
  \/ FullSyncInit
  \/ OrchFull
  \/ IncrementalNewWindow
  \/ ResumeNext
  \/ Finish
  \/ EngineEnter
  \/ BatchEmpty
  \/ BatchSuccess
  \/ Crash

LongSpec == LongInit /\ [][LongNext]_vars

\* ================================================================= claims
\* The statements below use their own reading of the specification's terms
\* (whitelist, window range, key order), not the operators of the engine.

Whitelist == {r.event_no : r \in {q \in src["events"] : IsHCC(q.event_no)}}

\* the (effectiveTimestamp, id) key of a row and its lexicographic order
Key(e, r) == <<Eff(r), IdOf(e, r).v>>
KeyLT(a, b) == a[1] < b[1] \/ (a[1] = b[1] /\ a[2] < b[2])

StrictlyIncreasing(e, q) ==
  \A i \in 1..(Len(q) - 1) : KeyLT(Key(e, q[i]), Key(e, q[i + 1]))

\* the rows of entity e that belong to a window ending at end_time
InWindow(e, end_time) == {r \in src[e] : r.event_no \in Whitelist /\ Eff(r) < end_time}

\* those of them strictly after the cursor (t, id), all of them without a cursor
AfterKey(e, S, t, id) ==
  IF t # NULL /\ id.k # "none" THEN {r \in S : KeyLT(<<t, id.v>>, Key(e, r))} ELSE S

\* the rows the current engine invocation has to process
ToProcess == AfterKey(hist.entity, InWindow(hist.entity, hist.end), hist.entry_t, hist.entry_id)

\* the engine invocation that hist describes is running or has just returned
InvocationLive == hist.entity # "none" /\ pc \in {"engine", "orch", "scan"}

\* the persisted windows with status completed
Completed(f) ==
  {p \in Entities \X (1..MaxRuns) :
     /\ p[2] <= Len(load_checkpoint(f)[p[1]])
     /\ load_checkpoint(f)[p[1]][p[2]].status = "completed"}

\* the persisted cursor and count of a window
Persisted(f, e, i) ==
  LET w == load_checkpoint(f)[e][i]
  IN <<w.last_checkpoint_time, w.last_checkpoint_id, w.processed_count>>

\* what the last successful batch of the invocation wrote (the values at
\* entry when no batch succeeded)
LastGood ==
  IF hist.done = <<>>
  THEN <<hist.entry_t, hist.entry_id, hist.entry_count>>
  ELSE LET r == hist.done[Len(hist.done)]
       IN <<Eff(r), StrId(IdOf(hist.entity, r).v), hist.entry_count + Len(hist.done)>>

\* C1: a resumed window processes exactly the qualifying rows whose key is
\* strictly greater than the cursor the checkpoint file held at the resume:
\* none at or before the cursor is processed again, and when the window
\* completes none after it has been missed.
C1_ResumeCorrectness ==
  (cmd = "resume" /\ InvocationLive /\ hist.entry_id.k # "none") =>
     /\ hist.visited \subseteq ToProcess
     /\ hist.fetched = 0 => hist.visited = ToProcess

C1_Witness ==
  /\ cmd = "resume" /\ InvocationLive /\ hist.entry_id.k # "none"
  /\ hist.fetched = 0
  /\ hist.visited # {}
  /\ hist.visited # InWindow(hist.entity, hist.end)

\* C2: a window's status becomes completed in a step if and only if that step
\* is an engine iteration on that window whose fetch, issued at the window's
\* persisted cursor, returned zero rows.
C2_CompletionIffEmptyFetch ==
  [][ LET newly == Completed(file') \ Completed(file)
          empty_fetch == pc = "engine" /\ hist'.fetched = 0 /\ hist.fetched # 0
      IN /\ newly # {} =>
              /\ empty_fetch
              /\ newly = {<<Cur, widx>>}
              /\ hist'.fetch_t = Persisted(file, Cur, widx)[1]
              /\ Str(hist'.fetch_id) = Persisted(file, Cur, widx)[2]
         /\ empty_fetch => <<Cur, widx>> \in newly ]_vars

C2_Witness ==
  /\ pc \in {"orch", "scan"}
  /\ hist.fetched = 0
  /\ hist.done # <<>>
  /\ <<hist.entity, hist.window>> \in Completed(file)

\* C3 (as claimed): after 5 consecutive failed batch attempts, of whatever
\* kind, the engine issues no further fetch for the window.
C3_BreakerTripsOnAnyFailure ==
  pc = "engine" => consecutive_errors < BreakerLimit

\* C4 (as claimed): when a window has tripped the circuit breaker and the
\* run has ended, the windows of the entities after it in the execution
\* order have been run to completed.
C4_RunContinuesAfterTrip ==
  (pc = "idle" /\ exit_code = "1" /\ hist.tripped) =>
     \A i \in 1..Len(execution_order) :
        (\E j \in 1..(i - 1) : execution_order[j] = hist.entity) =>
           \A k \in 1..Len(load_checkpoint(file)[execution_order[i]]) :
              load_checkpoint(file)[execution_order[i]][k].status = "completed"

\* C5: a failed batch attempt leaves the window's persisted cursor and
\* processed_count as they were, and when the breaker sets the window to
\* pending they are those of the last successful batch (the values at entry
\* when none succeeded).
C5_FailedBatchKeepsCheckpoint ==
  [][ (pc = "engine" /\ hist'.failed /\
       (consecutive_errors' = consecutive_errors + 1 \/ hist'.tripped)) =>
         /\ Persisted(file', Cur, widx) = Persisted(file, Cur, widx)
         /\ hist'.tripped =>
              /\ load_checkpoint(file')[Cur][widx].status = "pending"
              /\ Persisted(file', Cur, widx)[1] = LastGood[1]
              /\ Persisted(file', Cur, widx)[2] = Str(LastGood[2])
              /\ Persisted(file', Cur, widx)[3] = LastGood[3] ]_vars

C5_Witness ==
  /\ hist.tripped
  /\ hist.done # <<>>
  /\ load_checkpoint(file)[hist.entity][hist.window].status = "pending"
  /\ load_checkpoint(file)[hist.entity][hist.window].processed_count = Len(hist.done)

\* C6 (as claimed): a crash, at whatever point, leaves in the checkpoint
\* file what it held before: the next load_checkpoint yields every window.
C6_CrashKeepsCheckpoint ==
  [][ exit_code' = Killed => load_checkpoint(file') = load_checkpoint(file) ]_vars

\* the batches fetch_batch can return for entity e
Batches(e) ==
  {SortRows(e, S) : S \in {B \in SUBSET src[e] : B # {} /\ Cardinality(B) <= BATCH_SIZE}}

\* C7: for every entity and every batch, in every reachable state of the
\* sink, upserting the batch a second time changes nothing.
C7_UpsertIdempotent ==
  \A e \in Entities : \A b \in Batches(e) :
     upsert_batch(upsert_batch(mongo, e, b), e, b) = upsert_batch(mongo, e, b)

C7_Witness ==
  /\ pc = "engine"
  /\ hist.revisited # {}
  /\ hist.done # <<>>
  /\ HasEmbed(hist.entity)
  /\ \E ev \in DOMAIN mongo.events :
        /\ embed_array_field(hist.entity) \in DOMAIN mongo.events[ev]
        /\ Len(mongo.events[ev][embed_array_field(hist.entity)]) >= 1
  /\ DOMAIN mongo.event_attendees # {}

\* the sink an uninterrupted full synchronisation produces
RECURSIVE SinkAfter(_)
SinkAfter(n) ==
  IF n = 0 THEN EmptySink
  ELSE upsert_batch(SinkAfter(n - 1), execution_order[n],
                    SortRows(execution_order[n], InWindow(execution_order[n], MaxEnd)))

\* the final cursor and count of an uninterrupted full window of entity e
FinalOf(e) ==
  LET q == SortRows(e, InWindow(e, MaxEnd))
  IN IF q = <<>> THEN <<Epoch, NoneId, 0>>
     ELSE <<Eff(q[Len(q)]), StrId(IdOf(e, q[Len(q)]).v), Len(q)>>

FullWindowDone(e) ==
  /\ Len(load_checkpoint(file)[e]) >= 1
  /\ load_checkpoint(file)[e][1].mode = "full"
  /\ load_checkpoint(file)[e][1].status = "completed"

\* a sink with every embedded array read as a set of known size
AsSets(m) ==
  [m EXCEPT !.events =
     [ev \in DOMAIN m.events |->
        [f \in DOMAIN m.events[ev] |->
           IF f \in {embed_array_field(e) : e \in {x \in Entities : HasEmbed(x)}}
           THEN <<Len(m.events[ev][f]), Range(m.events[ev][f])>>
           ELSE m.events[ev][f]]]]

\* C8: whatever kills between upsert_batch and update_checkpoint_window, and
\* whatever resumes, led to it, a completed full window has the final cursor
\* and processed_count of an uninterrupted run, and once all full windows are
\* completed the sink is the one an uninterrupted run produces (its embedded
\* arrays in the same order too, unless a bulk_write that failed had applied
\* a request without an earlier one).
C8_InterruptedRunConverges ==
  /\ \A e \in Entities : FullWindowDone(e) => Persisted(file, e, 1) = FinalOf(e)
  /\ (\A e \in Entities : FullWindowDone(e)) =>
        /\ AsSets(mongo) = AsSets(SinkAfter(Len(execution_order)))
        /\ ~reordered => mongo = SinkAfter(Len(execution_order))

C8_Witness ==
  /\ interrupted /\ ~reordered
  /\ pc = "idle" /\ exit_code = "0"
  /\ \A e \in Entities : FullWindowDone(e)
  /\ Cardinality(InWindow(focus, MaxEnd)) >= 2
  /\ HasEmbed(focus)
  /\ \E ev \in DOMAIN mongo.events :
        /\ embed_array_field(focus) \in DOMAIN mongo.events[ev]
        /\ Len(mongo.events[ev][embed_array_field(focus)]) >= 2

\* C9: in a failure-free pass every qualifying row is handed to upsert_batch
\* exactly once, whatever the batch size, and every batch is in ascending
\* (effectiveTimestamp, id) order.
C9_NoSkipNoDuplicate ==
  (InvocationLive /\ ~hist.failed) =>
     /\ hist.revisited = {}
     /\ hist.visited \subseteq ToProcess
     /\ hist.fetched = 0 => hist.visited = ToProcess
     /\ StrictlyIncreasing(hist.entity, hist.cur_batch)

C9_Witness ==
  /\ InvocationLive /\ ~hist.failed
  /\ hist.fetched = 0
  /\ BATCH_SIZE = 1
  /\ \E r, q \in hist.visited : r # q /\ Eff(r) = Eff(q)

\* C10 (as claimed): the rows passed to upsert_batch in one invocation are
\* strictly increasing, across any two consecutive batches.
C10_VisitedStrictlyIncreasing ==
  InvocationLive => StrictlyIncreasing(hist.entity, hist.prev_batch \o hist.cur_batch)

\* C10 (amended): the rows of the batches that were upserted and
\* checkpointed in one invocation are strictly increasing, every batch is,
\* and so are any two consecutive batches of a failure-free invocation.
C10_CheckpointedStrictlyIncreasing ==
  hist.entity # "none" =>
     /\ StrictlyIncreasing(hist.entity, hist.done)
     /\ StrictlyIncreasing(hist.entity, hist.cur_batch)
     /\ ~hist.failed => StrictlyIncreasing(hist.entity, hist.prev_batch \o hist.cur_batch)

C10_Witness ==
  /\ pc = "engine"
  /\ hist.failed
  /\ hist.revisited # {}
  /\ Len(hist.done) >= 2

\* the position of row r among the rows of S in (effectiveTimestamp, id) order
Rank(e, S, r) == Cardinality({q \in S : q = r \/ KeyLT(Key(e, q), Key(e, r))})

\* the window that hist describes, as the checkpoint file holds it
HistWindow == load_checkpoint(file)[hist.entity][hist.window]

\* C11: in a failure-free run of a window over n rows with pairwise distinct
\* timestamps and batch size b, every batch has b rows except possibly the
\* last, the rows checkpointed so far are the first k of the n with k a
\* multiple of b or k = n, the persisted cursor is the key of the k-th row
\* and the persisted count has grown by k, and the window is completed
\* exactly when a fetch returned no row, which happens only at k = n.
C11_BatchSizesAndCursors ==
  (InvocationLive /\ ~hist.failed /\
   \A r, q \in ToProcess : r # q => Eff(r) # Eff(q)) =>
     LET n == Cardinality(ToProcess)
         k == Len(hist.done)
         c == Len(hist.cur_batch)
     IN /\ Range(hist.done) = {r \in ToProcess : Rank(hist.entity, ToProcess, r) <= k}
        /\ StrictlyIncreasing(hist.entity, hist.done)
        /\ k % BATCH_SIZE = 0 \/ k = n
        /\ c > 0 => c = (IF n - (k - c) < BATCH_SIZE THEN n - (k - c) ELSE BATCH_SIZE)
        /\ k > 0 => /\ HistWindow.last_checkpoint_time = Eff(hist.done[k])
                    /\ HistWindow.last_checkpoint_id = StrId(IdOf(hist.entity, hist.done[k]).v)
        /\ HistWindow.processed_count = hist.entry_count + k
        /\ HistWindow.status = "completed" <=> hist.fetched = 0
        /\ hist.fetched = 0 => k = n

C11_Witness ==
  /\ InvocationLive /\ ~hist.failed
  /\ \A r, q \in ToProcess : r # q => Eff(r) # Eff(q)
  /\ BATCH_SIZE = 1
  /\ Cardinality(ToProcess) >= 2
  /\ hist.fetched = 0
  /\ HistWindow.status = "completed"
  /\ HistWindow.processed_count = Cardinality(ToProcess)

\* the cursor of window x is not before the cursor of window w: a window
\* without a checkpoint id has no cursor yet, and keeps its time until it has
CursorLE(w, x) ==
  IF w.last_checkpoint_id.k = "none"
  THEN x.last_checkpoint_id.k = "none" => x.last_checkpoint_time = w.last_checkpoint_time
  ELSE /\ x.last_checkpoint_id.k # "none"
       /\ ~KeyLT(<<x.last_checkpoint_time, x.last_checkpoint_id.v>>,
                 <<w.last_checkpoint_time, w.last_checkpoint_id.v>>)

\* the windows, as <<entity, position>>, that the store holds before and
\* after a step (full-sync and the loss of the file end the windows they drop)
Surviving(f, g) ==
  {p \in Entities \X (1..MaxRuns) :
     /\ p[2] <= Len(load_checkpoint(f)[p[1]])
     /\ p[2] <= Len(load_checkpoint(g)[p[1]])
     /\ SameWindow(load_checkpoint(f)[p[1]][p[2]], load_checkpoint(g)[p[1]][p[2]])}

\* C12: in no step of a run, be it a batch, a failure, a crash or a resume,
\* does the persisted cursor of a window move backwards in
\* (effectiveTimestamp, id) order; full-sync's reset of the store, which
\* replaces every window by a new one, is not a step within a window.
C12_CursorNeverMovesBack ==
  [][ pc # "main" =>
        \A p \in Surviving(file, file') :
           CursorLE(load_checkpoint(file)[p[1]][p[2]], load_checkpoint(file')[p[1]][p[2]]) ]_vars

C12_Witness ==
  /\ pc = "engine"
  /\ cmd = "resume"
  /\ hist.entry_id.k # "none"
  /\ hist.failed
  /\ hist.done # <<>>
  /\ KeyLT(<<hist.entry_t, hist.entry_id.v>>,
           <<HistWindow.last_checkpoint_time, HistWindow.last_checkpoint_id.v>>)

\* the windows of the checkpoint file
Windows(f) ==
  UNION {{load_checkpoint(f)[e][i] : i \in 1..Len(load_checkpoint(f)[e])} : e \in Entities}

\* C13 (as claimed): last_checkpoint_time and last_checkpoint_id of a window
\* are null exactly when no batch has yet succeeded in that window.
C13_NullUntilFirstBatch ==
  \A w \in Windows(file) :
     (w.processed_count = 0) <=>
        (w.last_checkpoint_time = NULL /\ w.last_checkpoint_id = NoneId)

\* C13 (amended): last_checkpoint_time of a window is never null;
\* last_checkpoint_id is not null once a batch has succeeded in the window;
\* a window whose last_checkpoint_id is null starts at the epoch and has the
\* epoch as last_checkpoint_time; and in a full-sync window
\* last_checkpoint_id is null exactly when no batch has yet succeeded.
C13_CursorFieldsOfWindows ==
  \A w \in Windows(file) :
     /\ w.last_checkpoint_time # NULL
     /\ w.processed_count > 0 => w.last_checkpoint_id # NoneId
     /\ w.last_checkpoint_id = NoneId => w.last_checkpoint_time = Epoch /\ w.start = Epoch
     /\ w.mode = "full" => (w.last_checkpoint_id = NoneId <=> w.processed_count = 0)

C13_Witness ==
  /\ \E w \in Windows(file) :
        w.mode = "incremental" /\ w.processed_count = 0 /\ w.last_checkpoint_id # NoneId
  /\ \E w \in Windows(file) :
        w.mode = "full" /\ w.processed_count > 0 /\ w.status = "completed"
  /\ \E w \in Windows(file) :
        w.mode = "incremental" /\ w.last_checkpoint_id = NoneId /\ w.status = "completed"

\* C14: an incremental or resume run never enters the window engine on a
\* window whose status is completed, and no step other than full-sync's reset
\* of the store changes a completed window that stays in the store.
C14_CompletedWindowsAreFinal ==
  [][ /\ (pc = "call" /\ pc' = "engine" /\ cmd \in {"incremental", "resume"}) =>
           OnDisk.status # "completed"
      /\ pc # "main" =>
           \A p \in Surviving(file, file') :
              load_checkpoint(file)[p[1]][p[2]].status = "completed" =>
                 load_checkpoint(file')[p[1]][p[2]] = load_checkpoint(file)[p[1]][p[2]] ]_vars

C14_Witness ==
  /\ pc \in {"orch", "scan"}
  /\ cmd \in {"incremental", "resume"}
  /\ hist.entity # "none"
  /\ hist.window >= 2
  /\ HistWindow.status = "completed"
  /\ load_checkpoint(file)[hist.entity][1].status = "completed"
  /\ load_checkpoint(file)[hist.entity][1].processed_count > 0

\* the rows the fetch contract allows for the call that `out` answers: link
\* key in the whitelist, effectiveTimestamp before the window's end and, when
\* a cursor exists, key strictly after the cursor
Allowed ==
  {r \in src[focus] :
     /\ r.event_no \in VALID_EVENT_NOS
     /\ Eff(r) < end_time_utc
     /\ last_id.k # "none" => KeyLT(<<last_t_iso, last_id.v>>, Key(focus, r))}

\* C15: fetch_batch returns the first min(limit, m) of the m allowed rows in
\* ascending (effectiveTimestamp, id) order: never more than limit rows, never
\* a row that is not allowed, never a row while an allowed row of smaller key
\* is left out.
C15_FetchContract ==
  pc = "fetched" =>
     /\ Len(out) = (IF Cardinality(Allowed) < BATCH_SIZE THEN Cardinality(Allowed)
                    ELSE BATCH_SIZE)
     /\ Range(out) \subseteq Allowed
     /\ StrictlyIncreasing(focus, out)
     /\ \A r \in Range(out) : \A q \in Allowed \ Range(out) :
           KeyLT(Key(focus, r), Key(focus, q))

C15_Witness ==
  /\ pc = "fetched"
  /\ last_id.k # "none"
  /\ BATCH_SIZE = 1
  /\ Len(out) = 1
  /\ VALID_EVENT_NOS # 1..MaxId
  /\ \E q \in Allowed : q # out[1] /\ Eff(q) = Eff(out[1])

\* C16 (as claimed): the fetch of a window that has no checkpoint id yet,
\* whose last_checkpoint_time is then its start, returns no row whose
\* effectiveTimestamp is before that start.
C16_NoRowBeforeWindowStart ==
  (pc = "fetched" /\ last_id = NoneId) => \A r \in Range(out) : Eff(r) >= last_t_iso

\* C17: with an empty whitelist every fetch_batch call of every entity
\* returns no row, a window run completes on its first fetch that returns,
\* with processed_count 0, nothing is ever written to the sink, and
\* verify_consistency returns true.
C17_EmptyWhitelist ==
  Whitelist = {} =>
     /\ \A e \in Entities : \A c \in FetchCursors :
           fetch_batch(e, src[e], load_valid_event_nos(src["events"]), MaxEnd, c[1], c[2],
                       BATCH_SIZE) = <<>>
     /\ pc = "engine" => Rows = <<>>
     /\ mongo = EmptySink
     /\ \A w \in Windows(file) : w.processed_count = 0
     /\ (InvocationLive /\ hist.fetched # NULL) =>
           hist.fetched = 0 /\ hist.done = <<>> /\ HistWindow.status = "completed"
     /\ verify_consistency(load_valid_event_nos(src["events"]), src, mongo)

C17_Witness ==
  /\ Whitelist = {}
  /\ pc = "idle" /\ exit_code = "0"
  /\ \A e \in Entities : FullWindowDone(e)
  /\ \E e \in Entities : src[e] # {}


\* C18: the step of command_incremental that opens a table's window appends
\* one window to that table's base_windows and changes nothing else in the
\* store; the window has mode incremental, status pending, processed_count 0
\* and ends at the run's end time; its start and its cursor are the final
\* cursor of a completed window of the table that no other completed window
\* of the table finished after, or the epoch and no id when the table has no
\* completed window.
C18_IncrementalStart ==
  [][(pc = "orch" /\ cmd = "incremental" /\ pc' = "call") =>
       LET old == load_checkpoint(file)[Cur]
           ws == load_checkpoint(file')[Cur]
           new == ws[Len(ws)]
           C == {i \in 1..Len(old) : old[i].status = "completed"}
       IN /\ Len(ws) = Len(old) + 1
          /\ SubSeq(ws, 1, Len(old)) = old
          /\ \A e \in Entities \ {Cur} : load_checkpoint(file')[e] = load_checkpoint(file)[e]
          /\ new.mode = "incremental" /\ new.status = "pending"
          /\ new.processed_count = 0 /\ new.end = end_time_utc
          /\ new.start = new.last_checkpoint_time
          /\ IF C = {}
             THEN new.start = Epoch /\ new.last_checkpoint_id = NoneId
             ELSE \E i \in C :
                    /\ \A j \in C : old[i].finish_exec_time >= old[j].finish_exec_time
                    /\ new.last_checkpoint_time = old[i].last_checkpoint_time
                    /\ new.last_checkpoint_id = old[i].last_checkpoint_id]_vars

C18_Witness ==
  /\ pc = "call" /\ cmd = "incremental"
  /\ LET ws == load_checkpoint(file)[Cur]
     IN /\ Len(ws) = 3
        /\ ws[1].status = "completed" /\ ws[2].status = "completed"
        /\ ws[1].finish_exec_time > ws[2].finish_exec_time
        /\ ws[1].last_checkpoint_time # ws[2].last_checkpoint_time
        /\ ws[3].start = ws[1].last_checkpoint_time
        /\ ws[3].last_checkpoint_id = ws[1].last_checkpoint_id
        /\ ws[3].last_checkpoint_id # NoneId

\* C19: the window command_incremental has opened for a table is the one it
\* would have opened from any other store that holds the same windows for
\* this table, whatever windows that store holds for the other tables.
C19_OtherTablesDoNotMatter ==
  (pc = "call" /\ cmd = "incremental") =>
     LET ws == load_checkpoint(file)[Cur]
         prior == SubSeq(ws, 1, Len(ws) - 1)
     IN \A O \in StoredLists :
          LET other == ValidFile([e \in Entities |-> IF e = Cur THEN prior ELSE O])
              latest == get_latest_checkpoint_for_table(other, Cur)
          IN NewWindow(latest.t, end_time_utc, "incremental", latest.t, latest.id) = ws[Len(ws)]

C19_Witness ==
  /\ pc = "call" /\ cmd = "incremental"
  /\ LET ws == load_checkpoint(file)[Cur]
     IN /\ Len(ws) >= 2
        /\ ws[Len(ws)].last_checkpoint_id # NoneId
        /\ \E e \in Entities \ {Cur} :
              \E i \in 1..Len(load_checkpoint(file)[e]) :
                 LET w == load_checkpoint(file)[e][i]
                 IN /\ w.status = "completed"
                    /\ \A j \in 1..(Len(ws) - 1) :
                          ws[j].status = "completed" => w.finish_exec_time > ws[j].finish_exec_time
                    /\ w.last_checkpoint_time # ws[Len(ws)].last_checkpoint_time


\* C20 (as claimed): a resume run calls the window engine only on windows
\* whose status is pending or in_progress, and on every such window: a window
\* the engine returned from is completed, so when the run ends (exit code 0
\* or 1) a window that is still pending or in_progress can only be the one
\* the engine was last called on, and there is none when no batch failed.
C20_ResumeCoversAllWindows ==
  [][/\ (cmd = "resume" /\ pc' = "call") =>
           cp_data'[execution_order[idx']][widx'].status \in {"pending", "in_progress"}
     /\ (cmd = "resume" /\ pc' = "idle" /\ exit_code' \in {"0", "1"}) =>
           \A e \in Entities :
              \A i \in 1..Len(load_checkpoint(file')[e]) :
                 load_checkpoint(file')[e][i].status \in {"pending", "in_progress"} =>
                    hist'.failed /\ hist'.entity = e /\ hist'.window = i]_vars


\* C21: when command_full_sync is about to process its first entity, the
\* checkpoint file holds, whatever it held before, exactly one window for each
\* of events, hcc_events, attendees, coupon_burui and member_types, from the
\* epoch to the open-ended maximum, of mode full, pending, with
\* processed_count 0 and no row fetched yet.
C21_FullSyncWindows ==
  (cmd = "full_sync" /\ pc \in {"orch", "call"} /\ idx = 1) =>
     /\ file.state = "valid"
     /\ DOMAIN file.data = {"events", "hcc_events", "attendees", "coupon_burui", "member_types"}
     /\ \A e \in DOMAIN file.data :
           /\ Len(file.data[e]) = 1
           /\ file.data[e][1].start = Epoch
           /\ file.data[e][1].end = MaxEnd
           /\ file.data[e][1].mode = "full"
           /\ file.data[e][1].status = "pending"
           /\ file.data[e][1].processed_count = 0

C21_Witness ==
  /\ cmd = "full_sync" /\ pc = "orch" /\ idx = 1
  /\ runs = 2
  /\ mongo # EmptySink


\* the windows a run of command c works on are all completed in store cp
RanAllCompleted(c, cp, end_time) ==
  CASE c = "full_sync" ->
         \A e \in Entities : Len(cp[e]) = 1 /\ cp[e][1].status = "completed"
    [] c = "incremental" ->
         \A e \in Entities :
            /\ Len(cp[e]) >= 1
            /\ cp[e][Len(cp[e])].end = end_time
            /\ cp[e][Len(cp[e])].status = "completed"
    [] OTHER ->
         \A e \in Entities : \A i \in 1..Len(cp[e]) : cp[e][i].status = "completed"

\* C22: a process that ends by itself ends with exit code 0 or 1; one that
\* had dispatched its command ends with 0 exactly when every window the
\* command worked on is completed, whatever verify_consistency found, and with
\* 1 when an exception left the command; one that fails to connect or to load
\* the whitelist ends with 1.
C22_ExitStatus ==
  [][/\ (pc # "idle" /\ pc' = "idle" /\ exit_code' # Killed) =>
           /\ exit_code' \in {"0", "1"}
           /\ exit_code' = "0" <=> RanAllCompleted(cmd, load_checkpoint(file'), end_time_utc)
           /\ exit_code' = "1" <=> (pc = "engine" /\ hist'.tripped)
     /\ (pc = "idle" /\ pc' = "idle" /\ runs' # runs) => exit_code' = "1"]_vars

C22_Witness ==
  /\ pc = "idle" /\ exit_code = "0"
  /\ verification.called /\ ~verification.all_ok
  /\ \E e \in Entities : verification.results[e] = "FAIL"


\* C23: a process that ends because it cannot connect to the source or the
\* sink, or cannot load the whitelist, ends with exit code 1 and leaves the
\* checkpoint file (and the sink) exactly as it found them, whatever its
\* command.
C23_StartupFailureKeepsStore ==
  [][(pc = "idle" /\ pc' = "idle" /\ runs' # runs) =>
        /\ exit_code' = "1"
        /\ file' = file
        /\ mongo' = mongo]_vars

C23_Witness ==
  /\ pc = "idle" /\ exit_code = "1" /\ ~faulted
  /\ runs = 2
  /\ \E e \in Entities : \E i \in 1..Len(load_checkpoint(file)[e]) :
        load_checkpoint(file)[e][i].processed_count > 0


\* the source rows of table e whose link key is on the whitelist
Scoped(e) == {r \in src[e] : r.event_no \in Whitelist}

\* the elements of array f of document d
Elements(d, f) == IF f \in DOMAIN d THEN {d[f][i] : i \in 1..Len(d[f])} ELSE {}

\* C24: the whitelist a running process holds is the set of the HCC event
\* numbers of the events table, from its start to its end; and every document
\* of the sink, every field merged into one and every element of an embedded
\* array comes from a source row whose link key is on that whitelist.
C24_WhitelistScoping ==
  /\ pc # "idle" => VALID_EVENT_NOS = Whitelist
  /\ \A k \in DOMAIN mongo.events :
        LET d == mongo.events[k]
        IN /\ \E r \in Scoped("events") : r.event_no = d["eventNo"] /\ d["eventNo"] = k
           /\ "hccType" \in DOMAIN d =>
                 \E r \in Scoped("hcc_events") :
                    r.event_no = k /\ TransformValue(r.payload) = d["hccType"]
           /\ \A v \in Elements(d, "usingBranchIds") :
                 \E r \in Scoped("coupon_burui") : r.event_no = k /\ TransformValue(r.payload) = v
           /\ \A v \in Elements(d, "memberTypes") :
                 \E r \in Scoped("member_types") : r.event_no = k /\ TransformValue(r.payload) = v
  /\ \A k \in DOMAIN mongo.event_attendees :
        LET d == mongo.event_attendees[k]
        IN \E r \in Scoped("attendees") :
              r.event_no = d["eventNo"] /\ r.id = d["id"]
                 /\ TransformValue(r.payload) = d["appId"]

C24_Witness ==
  /\ pc = "idle" /\ exit_code = "0"
  /\ \E r \in src[focus] : r.event_no \notin Whitelist
  /\ Scoped(focus) # {}
  /\ \A e \in Entities : FullWindowDone(e)
  /\ focus = "attendees" => mongo.event_attendees # <<>>
  /\ HasEmbed(focus) => \E k \in DOMAIN mongo.events : embed_array_field(focus) \in DOMAIN mongo.events[k]


\* C25 (as claimed): when a full sync ends with all five windows completed,
\* no iteration of the process having raised, the whitelist not empty and no
\* check of the verification having raised, verify_consistency has found the
\* two counts of every counted entity equal and returns true.
C25_VerificationAligned ==
  [][(/\ cmd = "full_sync" /\ pc # "idle" /\ pc' = "idle" /\ exit_code' = "0"
      /\ ~faulted'
      /\ Whitelist # {}
      /\ RanAllCompleted("full_sync", load_checkpoint(file'), NULL)
      /\ \A e \in Entities : verification'.results[e] # "ERROR") =>
        /\ verification'.called
        /\ verification'.all_ok
        /\ \A e \in Entities : verification'.results[e] = "PASS"]_vars


\* the two counts the verification compares for a counted entity: the
\* whitelisted source rows (for coupon_burui their distinct (event, branch)
\* pairs with a branch), and the sink's documents or summed array lengths
SourceCount(e) ==
  IF e = "coupon_burui"
  THEN Cardinality({<<r.event_no, r.payload>> : r \in {q \in Scoped(e) : q.payload # ""}})
  ELSE Cardinality(Scoped(e))

SinkCount(e) ==
  CASE e = "attendees" ->
         Cardinality({k \in DOMAIN mongo.event_attendees :
                        mongo.event_attendees[k]["eventNo"] \in Whitelist})
    [] HasEmbed(e) ->
         Cardinality(UNION {{<<k, v>> : v \in Elements(mongo.events[k], embed_array_field(e))} :
                              k \in {j \in DOMAIN mongo.events :
                                       mongo.events[j]["eventNo"] \in Whitelist}})
    [] OTHER ->
         Cardinality({k \in DOMAIN mongo.events : mongo.events[k]["eventNo"] \in Whitelist})

Counted == Entities \ {"hcc_events"}

\* C26 (as claimed): with a non-empty whitelist verify_consistency checks
\* every entity, returns false exactly when a counted entity has different
\* counts or its check raised, and reports hcc_events as passing always.
C26_VerdictMergeAlwaysPasses ==
  (verification.called /\ Whitelist # {}) =>
     /\ \A e \in Entities : verification.results[e] # "none"
     /\ ~verification.all_ok <=>
           \E e \in Counted :
              SourceCount(e) # SinkCount(e) \/ verification.results[e] = "ERROR"
     /\ verification.results["hcc_events"] = "PASS"

\* C26 (amended): with a non-empty whitelist verify_consistency checks every
\* entity and returns false exactly when a counted entity has different
\* counts or the check of some entity, hcc_events included, raised; a counted
\* entity is reported FAIL exactly when its check did not raise and its counts
\* differ, and hcc_events is reported as passing unless its check raised.
C26_Verdict ==
  (verification.called /\ Whitelist # {}) =>
     /\ \A e \in Entities : verification.results[e] # "none"
     /\ ~verification.all_ok <=>
           \/ \E e \in Counted : SourceCount(e) # SinkCount(e)
           \/ \E e \in Entities : verification.results[e] = "ERROR"
     /\ \A e \in Counted :
           verification.results[e] = "FAIL" <=>
              (verification.results[e] # "ERROR" /\ SourceCount(e) # SinkCount(e))
     /\ verification.results["hcc_events"] \in {"PASS", "ERROR"}

C26_Witness ==
  /\ verification.called /\ Whitelist # {}
  /\ ~verification.all_ok
  /\ verification.results["hcc_events"] = "ERROR"
  /\ verification.results["events"] = "PASS"


\* the order the specification gives: parents, then children, then embedded
ClaimedOrder == <<"events", "hcc_events", "attendees", "coupon_burui", "member_types">>

Rank28(e) == CHOOSE i \in 1..Len(ClaimedOrder) : ClaimedOrder[i] = e

\* the windows of entity e the running command works on
RunWindows(e) ==
  LET ws == load_checkpoint(file)[e]
  IN CASE cmd = "full_sync" -> {i \in 1..Len(ws) : i = 1}
       [] cmd = "incremental" -> {i \in 1..Len(ws) : i = Len(ws) /\ ws[i].end = end_time_utc}
       [] OTHER -> {i \in 1..Len(ws) : ws[i].status \in {"pending", "in_progress"}}

\* C28: while the window engine is called or runs for an entity, the
\* invocation in flight is the only one, every entity before it in the order
\* events, hcc_events, attendees, coupon_burui, member_types has all the
\* windows of this run completed (so the parent's window has finished before
\* any batch of a child or embedded entity is applied), and no entity after
\* it has had a window of this run touched: in a full sync and an incremental
\* run such a window is still pending with processed_count 0 or not yet
\* created.
C28_SequentialOrder ==
  (pc \in {"call", "engine"}) =>
     /\ pc = "engine" => (hist.entity = Cur /\ hist.window = widx)
     /\ \A e \in Entities :
           /\ Rank28(e) < Rank28(Cur) =>
                 /\ cmd # "resume" => RunWindows(e) # {}
                 /\ \A i \in RunWindows(e) : load_checkpoint(file)[e][i].status = "completed"
           /\ (Rank28(e) > Rank28(Cur) /\ cmd # "resume") =>
                 \A i \in RunWindows(e) :
                    /\ load_checkpoint(file)[e][i].status = "pending"
                    /\ load_checkpoint(file)[e][i].processed_count = 0
           /\ (Rank28(e) > Rank28(Cur) /\ cmd = "incremental") => RunWindows(e) = {}

C28_Witness ==
  /\ pc = "engine" /\ cmd = "full_sync"
  /\ Cur = "attendees"
  /\ Rows # <<>>
  /\ DOMAIN mongo.events # {}


\* a status change the specification allows
LegalChange(a, b) ==
  \/ a = b
  \/ a = "pending" /\ b = "in_progress"
  \/ a = "in_progress" /\ b \in {"completed", "pending"}

\* C29: every window of the store has status pending, in_progress or
\* completed; a window that enters the store enters it pending; and in every
\* step a window that stays in the store keeps its status or goes from
\* pending to in_progress, from in_progress to completed or from in_progress
\* to pending (full-sync's reset replaces the windows by new ones).
C29_LegalStatusTransitions ==
  [][/\ \A w \in Windows(file') : w.status \in {"pending", "in_progress", "completed"}
     /\ \A e \in Entities :
           \A i \in 1..Len(load_checkpoint(file')[e]) :
              (i > Len(load_checkpoint(file)[e]) \/ pc = "main") =>
                 load_checkpoint(file')[e][i].status = "pending"
     /\ pc # "main" =>
           \A p \in Surviving(file, file') :
              LegalChange(load_checkpoint(file)[p[1]][p[2]].status,
                          load_checkpoint(file')[p[1]][p[2]].status)]_vars

C29_Witness ==
  /\ pc = "idle" /\ exit_code = "1"
  /\ hist.tripped /\ faulted
  /\ HistWindow.status = "pending"
  /\ HistWindow.processed_count > 0
  /\ \E w \in Windows(file) : w.status = "completed"


\* the persisted cursor of a window as a (timestamp, id) pair
CursorOf(w) == <<w.last_checkpoint_time, w.last_checkpoint_id.v>>

\* C30: a step of the engine that completes a batch of r >= 1 rows leaves
\* the engine's window persisted with the (effectiveTimestamp, primary key)
\* of the batch's last row as cursor, the id stored as a string, with
\* processed_count increased by r and status in_progress; the step that enters
\* the engine and the step that completes the window leave processed_count
\* and the cursor of the window as they were.
C30_PerBatchCheckpoint ==
  [][LET old == load_checkpoint(file)[Cur][widx]
         new == load_checkpoint(file')[Cur][widx]
         batch == hist'.cur_batch
         r == Len(hist'.done) - Len(hist.done)
     IN /\ (pc = "engine" /\ pc' = "engine" /\ Len(hist'.done) > Len(hist.done)) =>
              /\ r = Len(batch) /\ r >= 1
              /\ \A q \in Range(batch) : q \in src[Cur]
              /\ CursorOf(new) = Key(Cur, batch[r])
              /\ new.last_checkpoint_id.k = "str"
              /\ new.processed_count = old.processed_count + r
              /\ new.status = "in_progress"
        /\ (pc = "call" /\ pc' = "engine") =>
              /\ new.processed_count = old.processed_count
              /\ new.last_checkpoint_time = old.last_checkpoint_time
              /\ new.last_checkpoint_id = old.last_checkpoint_id
              /\ new.status = "in_progress"
        /\ (pc = "engine" /\ pc' \in {"orch", "scan"}) =>
              /\ new.processed_count = old.processed_count
              /\ new.last_checkpoint_time = old.last_checkpoint_time
              /\ new.last_checkpoint_id = old.last_checkpoint_id
              /\ new.status = "completed"]_vars

C30_Witness ==
  /\ pc = "engine"
  /\ ~hist.failed
  /\ Len(hist.cur_batch) = 2
  /\ hist.done = hist.cur_batch
  /\ Key(hist.entity, hist.cur_batch[1]) # Key(hist.entity, hist.cur_batch[2])
  /\ HistWindow.status = "in_progress"
  /\ HistWindow.processed_count = hist.entry_count + Len(hist.done)
  /\ CursorOf(HistWindow) = Key(hist.entity, hist.cur_batch[2])


\* a row that is missing both timestamp fields
Corrupt(r) == r.mod_date = NULL /\ r.add_date = NULL

\* C31 (as claimed): an engine iteration whose batch contains a row that is
\* missing both timestamp fields, wherever in the batch the row sits, leaves
\* the persisted cursor and processed_count of the window as they were.
C31_CorruptRowKeepsCursor ==
  [][(pc = "engine" /\ exit_code' # Killed /\ \E i \in 1..Len(Rows) : Corrupt(Rows[i])) =>
        Persisted(file', Cur, widx) = Persisted(file, Cur, widx)]_vars


\* the batch fetched at the engine's cursor ends with a corrupt row
CorruptLast == pc = "engine" /\ Rows # <<>> /\ Corrupt(Rows[Len(Rows)])

\* C32 (as claimed): while the batch fetched at the cursor ends with a corrupt
\* row, every step of the engine is a retry of that batch: the engine stays in
\* its loop and the window reaches neither completed nor pending.
C32_StallsForever ==
  [][(CorruptLast /\ exit_code' # Killed) =>
        /\ pc' = "engine"
        /\ load_checkpoint(file')[Cur][widx].status = "in_progress"]_vars

\* C32 (amended): while the batch fetched at the cursor ends with a corrupt
\* row, no step completes the window or changes its persisted cursor and
\* processed_count; every step of the engine counts one more consecutive
\* failure; a step that leaves the engine in its loop leaves the cursor it
\* fetches at as it was and is either a fetch that raised or an attempt of
\* the batch that made fewer than 5 consecutive failures; the attempt that
\* makes the fifth sets the window to pending and ends the process with exit
\* code 1.
C32_StallEndsAtBreaker ==
  [][(CorruptLast /\ exit_code' # Killed) =>
        /\ Persisted(file', Cur, widx) = Persisted(file, Cur, widx)
        /\ load_checkpoint(file')[Cur][widx].status # "completed"
        /\ hist'.failed
        /\ IF pc' = "engine"
           THEN /\ consecutive_errors' = consecutive_errors + 1
                /\ last_t_iso' = last_t_iso /\ last_id' = last_id
                /\ load_checkpoint(file')[Cur][widx].status = "in_progress"
                /\ \/ consecutive_errors' < BreakerLimit
                   \/ mongo' = mongo /\ hist' = [hist EXCEPT !.failed = TRUE]
           ELSE /\ consecutive_errors + 1 >= BreakerLimit
                /\ pc' = "idle" /\ exit_code' = "1"
                /\ hist'.tripped
                /\ load_checkpoint(file')[Cur][widx].status = "pending"]_vars

C32_Witness ==
  /\ pc = "idle" /\ exit_code = "1"
  /\ hist.tripped
  /\ hist.cur_batch # <<>>
  /\ Corrupt(hist.cur_batch[Len(hist.cur_batch)])
  /\ HistWindow.status = "pending"


\* C33: whenever update_checkpoint_window has returned (the engine was
\* entered, a batch was checkpointed, a window was completed or set to
\* pending) the checkpoint file is a complete document that holds the
\* in-memory store; so at every batch boundary no window differs between the
\* two, and the window full-sync or incremental created is in the file before
\* the engine is called on it.
C33_PersistAfterEveryMutation ==
  /\ pc \in {"call", "engine", "scan"} => file = ValidFile(cp_data)
  /\ pc \in {"call", "engine"} => widx \in 1..Len(file.data[Cur])
  /\ pc = "orch" => load_checkpoint(file) = cp_data
  /\ (pc = "idle" /\ hist.tripped) =>
        /\ file.state = "valid"
        /\ HistWindow.status = "pending"
        /\ HistWindow.last_checkpoint_time = LastGood[1]
        /\ HistWindow.processed_count = LastGood[3]

C33_Witness ==
  /\ pc = "engine" /\ cmd = "incremental"
  /\ hist.done # <<>>
  /\ Len(cp_data[Cur]) >= 2
  /\ file = ValidFile(cp_data)
  /\ Win.processed_count > 0
  /\ Win.status = "in_progress"


\* the engine has returned with its window completed, or has set it to
\* pending and raised (a killed process has no invocation left to return)
EngineReturned ==
  /\ pc # "engine"
  /\ exit_code # Killed =>
        /\ hist.entity # "none"
        /\ \/ pc \in {"orch", "scan"} /\ HistWindow.status = "completed"
           \/ pc = "idle" /\ exit_code = "1" /\ HistWindow.status = "pending"

\* C34 (as claimed): every invocation of the window engine eventually
\* returns, with its window completed or pending.
C34_EngineAlwaysReturns == (pc = "engine") ~> EngineReturned


\* a failed iteration that leaves the engine in its loop
FailedIteration ==
  /\ pc = "engine" /\ pc' = "engine"
  /\ consecutive_errors' # consecutive_errors
  /\ consecutive_errors' # 0

\* C34, the part that holds: when from some point on no iteration fails,
\* every invocation of the engine returns (completed, or pending when the
\* fifth failure in a row was made before that point).
C34_ReturnsWhenFailuresCease ==
  (<>[][~FailedIteration]_vars) => ((pc = "engine") ~> EngineReturned)


\* the source rows that qualify for stored window i of entity e: link key on
\* the whitelist, effectiveTimestamp before the window's end, key after the
\* cursor the window was created with (every such row when it had none)
QualifiesFor(e, i) ==
  AfterKey(e, InWindow(e, load_checkpoint(file)[e][i].end), delivered[e][i].t, delivered[e][i].id)

\* C35: whatever batch failures, breaker trips, kills and resumes came before,
\* every source row that qualifies for a stored window whose status is
\* completed is among the rows of the batches that were upserted and
\* checkpointed for that window (and while a window is not completed the rows
\* checkpointed for it are the qualifying rows up to its persisted cursor).
C35_NoDataLoss ==
  \A e \in Entities :
     \A i \in 1..Len(load_checkpoint(file)[e]) :
        LET w == load_checkpoint(file)[e][i]
            got == Range(delivered[e][i].rows)
        IN /\ Len(delivered[e]) = Len(load_checkpoint(file)[e])
           /\ got \subseteq QualifiesFor(e, i)
           /\ w.status = "completed" => QualifiesFor(e, i) \subseteq got
           /\ \A r \in QualifiesFor(e, i) :
                 r \in got <=>
                    (w.last_checkpoint_id.k # "none" /\ ~KeyLT(CursorOf(w), Key(e, r)))

C35_Witness ==
  /\ pc = "idle" /\ runs = 2 /\ faulted
  /\ interrupted
  /\ \E i \in 1..Len(load_checkpoint(file)[focus]) :
        /\ load_checkpoint(file)[focus][i].status = "completed"
        /\ Cardinality(QualifiesFor(focus, i)) >= 2
        /\ Range(delivered[focus][i].rows) = QualifiesFor(focus, i)


\* the count of every window of store f is the number of rows of the batches
\* d records for it, none of them twice, and is the number of the qualifying
\* rows when the window started at the epoch and is completed
CountsAdd(f, d) ==
  \A e \in Entities :
     \A i \in 1..Len(load_checkpoint(f)[e]) :
        LET w == load_checkpoint(f)[e][i]
            rows == d[e][i].rows
        IN /\ w.processed_count = Len(rows)
           /\ Cardinality(Range(rows)) = Len(rows)
           /\ (w.start = Epoch /\ w.status = "completed") =>
                 w.processed_count = Cardinality(InWindow(e, w.end))

\* C36: in every step the processed_count of a window that stays in the
\* store does not decrease, and after it the count of every window is the sum
\* of the sizes of the batches checkpointed for it by all the invocations so
\* far, each row once, which for a completed window that started at the epoch
\* is the number of its qualifying source rows.
C36_ProcessedCount ==
  [][/\ CountsAdd(file', delivered')
     /\ pc # "main" =>
           \A p \in Surviving(file, file') :
              load_checkpoint(file')[p[1]][p[2]].processed_count >=
                 load_checkpoint(file)[p[1]][p[2]].processed_count]_vars

C36_Witness ==
  /\ pc = "scan" /\ cmd = "resume"
  /\ hist.failed
  /\ hist.entry_count > 0
  /\ HistWindow.status = "completed"
  /\ HistWindow.start = Epoch
  /\ HistWindow.processed_count > hist.entry_count
  /\ HistWindow.processed_count = Cardinality(InWindow(hist.entity, hist.end))


\* C37 (as claimed): once a window of coupon_burui is completed, every result
\* row of the join that qualifies for it has been upserted and checkpointed,
\* for every batch size, also when several result rows share one
\* (effectiveTimestamp, id).
C37_JoinedRowsDelivered ==
  \A i \in 1..Len(load_checkpoint(file)["coupon_burui"]) :
     load_checkpoint(file)["coupon_burui"][i].status = "completed" =>
        QualifiesFor("coupon_burui", i) \subseteq Range(delivered["coupon_burui"][i].rows)


\* the window the process that is not scheduled is working on, and what the
\* checkpoint file holds for it
PeerCur == execution_order[peer.idx]
PeerWin == peer.cp_data[PeerCur][peer.widx]
PeerPersisted ==
  /\ peer.pc = "engine"
  /\ peer.widx \in 1..Len(file.data[PeerCur])
  /\ file.data[PeerCur][peer.widx] = PeerWin

\* C38: while two processes work on windows of different entities, a save of the
\* checkpoint file by one of them leaves in the file the status, the cursor and
\* the processed_count the other one has persisted for its own window.
C38_SaveKeepsOtherWindow ==
  [][(/\ pc \in {"call", "engine"}
      /\ PeerPersisted
      /\ Cur # PeerCur
      /\ file' # file)
     => /\ peer.widx \in 1..Len(file'.data[PeerCur])
        /\ file'.data[PeerCur][peer.widx].status = PeerWin.status
        /\ file'.data[PeerCur][peer.widx].last_checkpoint_time = PeerWin.last_checkpoint_time
        /\ file'.data[PeerCur][peer.widx].last_checkpoint_id = PeerWin.last_checkpoint_id
        /\ file'.data[PeerCur][peer.widx].processed_count = PeerWin.processed_count]_vars


\* C39: the window command_incremental opens for a table starts at a cursor
\* that is not before the final cursor of any completed window of the table,
\* whatever runs came before (also a window that was left unfinished and
\* resumed after a later window had completed).
C39_IncrementalStartNeverRegresses ==
  [][(pc = "orch" /\ cmd = "incremental" /\ pc' = "call") =>
       LET old == load_checkpoint(file)[Cur]
           ws == load_checkpoint(file')[Cur]
       IN \A i \in 1..Len(old) :
            old[i].status = "completed" => CursorLE(old[i], ws[Len(ws)])]_vars


\* the windows of entity e in store cp are told apart by (start, end, mode)
Distinct(cp, e) ==
  \A i, j \in 1..Len(cp[e]) : i # j => ~SameWindow(cp[e][i], cp[e][j])

\* stores f and g hold the same windows, but for window i of entity e
SameBut(f, g, e, i) ==
  \A d \in Entities :
     /\ Len(g[d]) = Len(f[d])
     /\ \A k \in 1..Len(f[d]) : (d # e \/ k # i) => g[d][k] = f[d][k]

\* C40: no two windows of one entity share (start, end, mode), in the file and
\* in the store in memory; and a step of the window engine that writes the
\* checkpoint file changes at most the window the engine is running, in the
\* file and in memory, and leaves every other window of the entity and every
\* window of the other entities as it was.
C40_UpdateTouchesOwnWindow ==
  /\ [](\A e \in Entities : Distinct(load_checkpoint(file), e) /\ Distinct(cp_data, e))
  /\ [][(pc \in {"call", "engine"} /\ file' # file /\ file'.state = "valid") =>
          /\ SameBut(load_checkpoint(file), load_checkpoint(file'), Cur, widx)
          /\ SameBut(cp_data, load_checkpoint(file'), Cur, widx)
          /\ SameWindow(load_checkpoint(file')[Cur][widx], Win)]_vars

C40_Witness ==
  /\ pc = "engine"
  /\ widx = 2
  /\ LET ws == load_checkpoint(file)[Cur]
     IN /\ Len(ws) = 2
        /\ ws[1].start = ws[2].start /\ ws[1].mode = ws[2].mode
        /\ ws[1].status = "pending" /\ ws[1].processed_count = 0
        /\ ws[2].status = "in_progress" /\ ws[2].processed_count > 0

====
